---- MODULE Spec2Model ----
(***************************************************************************)
(* A model of the vector-calculator data engine: the NOFS binary codec     *)
(* (src/src/nofs/binary.ts) with its legacy-field migration, and the       *)
(* vector codec and mixer math (src/unnamed/part_007, the module the tests *)
(* import as src/mixer/math).                                              *)
(*                                                                         *)
(* JavaScript values are modelled as follows.                              *)
(*  - A Number is a record [k, s, m, e]: k = "fin" is the finite double    *)
(*    (-1)^s * m * 2^e in canonical form (m odd, or m = 0 and e = 0, so    *)
(*    that +0 and -0 are distinct values); k = "inf" is a signed infinity; *)
(*    k = "nan" is NaN, which carries no payload a script can observe.     *)
(*    The significands of the model stay below 2^31.                       *)
(*  - A float32 in a buffer is its four bytes, little-endian.              *)
(*  - A string that the code inspects character by character is a          *)
(*    sequence of one-character strings.                                   *)
(*  - A JSON value is a record tagged by t: "null", "bool", "num", "str",  *)
(*    "arr" (a sequence), "obj" (a sequence of <<key, value>> pairs in     *)
(*    property order).                                                     *)
(***************************************************************************)
EXTENDS Integers, Sequences, FiniteSets, TLC

VARIABLES
  pc,        \* position of the scenario the specification runs
  doc,       \* FieldMigrator: the input JSON tree
  legacy,    \* transformValueForEncrypt(doc)
  modern,    \* transformValueForDecrypt(doc)
  backL,     \* transformValueForDecrypt(legacy)
  backM,     \* transformValueForEncrypt(modern)
  jsonText,  \* BinaryCodec: the text handed to encryptJsonToNofs
  nofs,      \* the container buffer (a sequence of cells)
  sealed,    \* what the cipher has enciphered: [iv, plaintext] of the last encrypt
  encRes,    \* outcome of encryptJsonToNofs
  decRes,    \* outcome of decryptNofsToJson
  tamper,    \* how the container was altered between encrypt and decrypt
  vecIn,     \* VectorCodec: a Float32Array (sequence of 4-byte cells)
  hexIn,     \* a hex string (sequence of characters)
  hexRes,    \* outcome of vec32ToHex
  vecRes,    \* outcome of hexToVec32
  mixIn,     \* Mixer: [vectors, weights]
  mixRes,    \* outcome of mixVectors
  magIn,     \* Mixer: [vec, targetMag]
  magRes,    \* outcome of setMagnitude
  valDoc,    \* Validator: the parsed JSON value handed to validateNofsData
  valRes,    \* outcome of validateNofsData
  normCfg,   \* normalizeNofsConfig: the config it is given
  normOnce,  \* normalizeNofsConfig(normCfg)
  normTwice, \* normalizeNofsConfig(normOnce)
  normVal,   \* validateNofsData(normOnce)
  saveIn,    \* writeFile: [rawText, settings, now] of the call, and the disk before it
  saveLoc,   \* writeFile: its locals [encrypted, meta, target]
  disk,      \* the file system: [files, dirs, backups, tick]
  fsLog,     \* the file system operations performed, in order
  memento,   \* Mixer session: the value stored under MIXER_STATE_KEY
  wvState,   \* the mixer webview's variable state
  toExt,     \* messages posted by the webview, not yet handled by the extension
  toView,    \* messages posted by the extension, not yet handled by the webview
  tabOp,     \* the last operation on the session: what it saw and what it did
  addLoc,    \* MixerController.addChannel: its locals while it runs
  outTab,    \* computeOutputVector: the tab it is given
  outRes,    \* computeOutputVector: its lists, the mix, the vector and the error shown
  fixDoc,    \* Phoneset autofix: the document [nofs, scheme, open, text, changes]
  fixCache,  \* nofsLanguageByUri: the language recorded for the document
  fixTimers, \* nofsAutofixTimers and the runtime: [entry, pending, next]
  fixMark,   \* nofsAutofixInProgress holds the document's key
  fixEdits,  \* the calls of applyPhonesetAutofix awaiting applyJsonEdits
  fixLog     \* what the last call of applyPhonesetAutofix read and decided

vars == <<pc, doc, legacy, modern, backL, backM, jsonText, nofs, sealed,
          encRes, decRes, tamper, vecIn, hexIn, hexRes, vecRes, mixIn, mixRes,
          magIn, magRes, valDoc, valRes, normCfg, normOnce, normTwice, normVal,
          saveIn, saveLoc, disk, fsLog, memento, wvState, toExt, toView,
          tabOp, addLoc, outTab, outRes, fixDoc, fixCache, fixTimers, fixMark,
          fixEdits, fixLog>>

migVars == <<doc, legacy, modern, backL, backM>>
binVars == <<jsonText, nofs, sealed, encRes, decRes, tamper>>
vecVars == <<vecIn, hexIn, hexRes, vecRes>>
mixVars == <<mixIn, mixRes>>
magVars == <<magIn, magRes>>
valVars == <<valDoc, valRes>>
normVars == <<normCfg, normOnce, normTwice, normVal>>

\* The variables of the pure-function scenarios, and those of the others.
coreVars == <<migVars, binVars, vecVars, mixVars, magVars, valVars>>
saveVars == <<saveIn, saveLoc, disk, fsLog>>
sessVars == <<memento, wvState, toExt, toView, tabOp, addLoc>>
outVars == <<outTab, outRes>>
fixVars == <<fixDoc, fixCache, fixTimers, fixMark, fixEdits, fixLog>>
uiVars == <<sessVars, outVars, fixVars>>
extVars == <<normVars, saveVars, uiVars>>

None == [t |-> "none"]

(***************************************************************************)
(* Sequence helpers.                                                       *)
(***************************************************************************)
\* The concatenation of the sequences of ss (halving keeps the nesting of
\* the evaluation shallow).
RECURSIVE Flatten(_)
Flatten(ss) ==
  IF Len(ss) = 0 THEN <<>>
  ELSE IF Len(ss) = 1 THEN ss[1]
  ELSE LET h == Len(ss) \div 2
       IN  Flatten(SubSeq(ss, 1, h)) \o Flatten(SubSeq(ss, h + 1, Len(ss)))

Repeat(x, n) == [i \in 1..n |-> x]

Range(s) == {s[i] : i \in 1..Len(s)}

(***************************************************************************)
(* JavaScript Numbers and IEEE-754 single precision.                       *)
(***************************************************************************)
RECURSIVE BitLen(_)
BitLen(m) == IF m = 0 THEN 0 ELSE 1 + BitLen(m \div 2)

RECURSIVE TrailingZeros(_)
TrailingZeros(m) == IF m % 2 = 1 THEN 0 ELSE 1 + TrailingZeros(m \div 2)

NaN == [k |-> "nan", s |-> 0, m |-> 0, e |-> 0]
Inf(s) == [k |-> "inf", s |-> s, m |-> 0, e |-> 0]

\* The finite double (-1)^s * m * 2^e, in canonical form.
Fin(s, m, e) ==
  IF m = 0 THEN [k |-> "fin", s |-> s, m |-> 0, e |-> 0]
  ELSE LET z == TrailingZeros(m)
       IN  [k |-> "fin", s |-> s, m |-> m \div (2^z), e |-> e + z]

IsFinite(x) == x.k = "fin"
IsZero(x) == x.k = "fin" /\ x.m = 0

\* m / 2^k rounded to the nearest integer, ties to even (k >= 0).
RoundShift(m, k) ==
  IF k = 0 THEN m
  ELSE LET q == m \div (2^k)
           r == m % (2^k)
           half == 2^(k - 1)
       IN  IF r > half \/ (r = half /\ q % 2 = 1) THEN q + 1 ELSE q

\* The four bytes, little-endian, of the float32 with sign s, biased
\* exponent E and fraction frac.
F32Bytes(s, E, frac) ==
  << frac % 256,
     (frac \div 256) % 256,
     (E % 2) * 128 + frac \div 65536,
     s * 128 + E \div 2 >>

F32Sign(b) == b[4] \div 128
F32Exp(b) == (b[4] % 128) * 2 + b[3] \div 128
F32Frac(b) == (b[3] % 128) * 65536 + b[2] * 256 + b[1]

IsNaNBytes(b) == F32Exp(b) = 255 /\ F32Frac(b) # 0

\* The default quiet NaN and the other NaN encodings an engine may
\* write for the Number NaN (ECMAScript NumericToRawBytes: "an
\* implementation-chosen IEEE 754 NaN encoding").
NaNEncodings ==
  { F32Bytes(0, 255, 4194304),     \* 7FC00000, the default quiet NaN
    F32Bytes(0, 255, 4194305),     \* 7FC00001, quiet, payload 1
    F32Bytes(0, 255, 1),           \* 7F800001, signalling, payload 1
    F32Bytes(1, 255, 4194304) }    \* FFC00000

\* Rounding of a finite Number to float32 (round to nearest, ties to
\* even), as the typed-array and DataView stores do.
FinToF32Bytes(x) ==
  IF x.m = 0 THEN F32Bytes(x.s, 0, 0)
  ELSE
    LET L == BitLen(x.m)
        X == x.e + L - 1
    IN  IF X >= -126
        THEN LET sig0 == IF L <= 24 THEN x.m * 2^(24 - L)
                         ELSE RoundShift(x.m, L - 24)
                 X1 == IF sig0 = 16777216 THEN X + 1 ELSE X
                 sig == IF sig0 = 16777216 THEN 8388608 ELSE sig0
             IN  IF X1 > 127 THEN F32Bytes(x.s, 255, 0)
                 ELSE F32Bytes(x.s, X1 + 127, sig - 8388608)
        ELSE LET sh == x.e + 149
                 q == IF sh >= 0 THEN x.m * 2^sh
                      ELSE IF -sh > L THEN 0
                      ELSE RoundShift(x.m, -sh)
             IN  F32Bytes(x.s, q \div 8388608, q % 8388608)

\* setFloat32 storing every zero as +0.
NumberToF32BytesUnsignedZero(x, nanBytes) ==
  CASE x.k = "nan" -> nanBytes
    [] x.k = "inf" -> F32Bytes(x.s, 255, 0)
    [] x.m = 0 -> F32Bytes(0, 0, 0)
    [] OTHER -> FinToF32Bytes(x)

\* DataView.prototype.setFloat32(offset, x, true) / a Float32Array store:
\* the four bytes written for the Number x; nanBytes is the encoding the
\* engine chooses when x is NaN.
NumberToF32Bytes(x, nanBytes) ==
  CASE x.k = "nan" -> nanBytes
    [] x.k = "inf" -> F32Bytes(x.s, 255, 0)
    [] OTHER -> FinToF32Bytes(x)

\* DataView.prototype.getFloat32(offset, true) / a Float32Array load:
\* the Number read from four bytes.
F32BytesToNumber(b) ==
  LET s == F32Sign(b)
      E == F32Exp(b)
      frac == F32Frac(b)
  IN  CASE E = 255 /\ frac = 0 -> Inf(s)
        [] E = 255 /\ frac # 0 -> NaN
        [] E = 0 -> Fin(s, frac, -149)
        [] OTHER -> Fin(s, 8388608 + frac, E - 150)

(***************************************************************************)
(* Characters and hexadecimal text.                                        *)
(***************************************************************************)
HexUpper ==
  <<"0", "1", "2", "3", "4", "5", "6", "7", "8", "9", "A", "B", "C", "D", "E", "F">>
HexLower ==
  <<"0", "1", "2", "3", "4", "5", "6", "7", "8", "9", "a", "b", "c", "d", "e", "f">>
LowerLetters ==
  <<"a", "b", "c", "d", "e", "f", "g", "h", "i", "j", "k", "l", "m",
    "n", "o", "p", "q", "r", "s", "t", "u", "v", "w", "x", "y", "z">>
UpperLetters ==
  <<"A", "B", "C", "D", "E", "F", "G", "H", "I", "J", "K", "L", "M",
    "N", "O", "P", "Q", "R", "S", "T", "U", "V", "W", "X", "Y", "Z">>

\* The character class [0-9a-fA-F].
IsHexChar(c) == \E i \in 1..16 : HexUpper[i] = c \/ HexLower[i] = c

\* The value of one hexadecimal digit.
HexVal(c) == (CHOOSE i \in 1..16 : HexUpper[i] = c \/ HexLower[i] = c) - 1

\* String.prototype.toUpperCase on one character.
UpperChar(c) ==
  IF \E i \in 1..26 : LowerLetters[i] = c
  THEN UpperLetters[CHOOSE i \in 1..26 : LowerLetters[i] = c]
  ELSE c

ToUpperCase(s) == [i \in 1..Len(s) |-> UpperChar(s[i])]

\* A regular expression ^[0-9a-fA-F]{n}$ tested on s (no multiline flag:
\* $ matches only at the end of the input).
HexRe(n, s) == Len(s) = n /\ \A i \in 1..n : IsHexChar(s[i])

\* Number.parseInt(two hex characters, 16) / Buffer.from(hex, "hex").
HexToBytes(s) ==
  [i \in 1..(Len(s) \div 2) |-> 16 * HexVal(s[2 * i - 1]) + HexVal(s[2 * i])]

\* byte.toString(16).padStart(2, "0"), in lower case as toString gives it.
ByteToHexLower(b) == <<HexLower[(b \div 16) + 1], HexLower[(b % 16) + 1]>>

\* math: bytesToHex.
BytesToHex(bytes) ==
  ToUpperCase(Flatten([i \in 1..Len(bytes) |-> ByteToHexLower(bytes[i])]))

(***************************************************************************)
(* VectorCodec: hexToVec32 and vec32ToHex.                                 *)
(***************************************************************************)
VecLen == 32
VecHexLen == 256

Ok(v) == [ok |-> TRUE, v |-> v]
Throw(msg) == [ok |-> FALSE, error |-> msg]

\* The Numbers a script reads from a Float32Array.
Float32ArrayRead(cells) == [i \in 1..Len(cells) |-> F32BytesToNumber(cells[i])]

\* The Float32Array holding the Numbers nums (each store rounds to
\* float32; nanBytes is the engine's encoding of NaN).
Float32ArrayOf(nums, nanBytes) ==
  [i \in 1..Len(nums) |-> NumberToF32Bytes(nums[i], nanBytes)]

HexToVec32Bad(hex, nanBytes) ==
  IF Len(hex) # VecHexLen
  THEN Throw("Expected 256 hex characters.")
  ELSE LET bytes == [i \in 1..128 |->
                      IF IsHexChar(hex[2 * i - 1]) /\ IsHexChar(hex[2 * i])
                      THEN 16 * HexVal(hex[2 * i - 1]) + HexVal(hex[2 * i])
                      ELSE 0]
           nums == [i \in 1..VecLen |->
                     F32BytesToNumber(SubSeq(bytes, 4 * i - 3, 4 * i))]
       IN  Ok(Float32ArrayOf(nums, nanBytes))

\* hexToVec32(hex): the Float32Array decoded from hex, or the error thrown.
HexToVec32(hex, nanBytes) ==
  IF ~HexRe(VecHexLen, hex)
  THEN Throw("Expected 256 hex characters.")
  ELSE LET bytes == HexToBytes(hex)
           nums == [i \in 1..VecLen |->
                     F32BytesToNumber(SubSeq(bytes, 4 * i - 3, 4 * i))]
       IN  Ok(Float32ArrayOf(nums, nanBytes))

\* vec32ToHex(vec): vec is the sequence of Numbers vec[0..length-1].
Vec32ToHex(vec, nanBytes) ==
  IF Len(vec) # VecLen
  THEN Throw("Expected 32 float values.")
  ELSE LET bytes == Flatten([i \in 1..VecLen |->
                              NumberToF32Bytes(vec[i], nanBytes)])
       IN  Ok(BytesToHex(bytes))

(***************************************************************************)
(* JSON values, as JSON.parse builds them.                                 *)
(***************************************************************************)
JNull == [t |-> "null"]
JBool(b) == [t |-> "bool", b |-> b]
JNum(x) == [t |-> "num", n |-> x]
JStr(s) == [t |-> "str", s |-> s]
JArr(a) == [t |-> "arr", a |-> a]
JObj(o) == [t |-> "obj", o |-> o]

IsArray(v) == v.t = "arr"
IsNumber(v) == v.t = "num"
IsString(v) == v.t = "str"

\* binary.ts: isPlainObject (a non-null object that is not an array).
IsPlainObject(v) == v.t = "obj"

\* Object.keys(record), in property order.
Keys(record) == [i \in 1..Len(record.o) |-> record.o[i][1]]

\* Object.prototype.hasOwnProperty.call(record, key).
HasOwn(record, key) == \E i \in 1..Len(record.o) : record.o[i][1] = key

\* record[key] for an own property.
Get(record, key) ==
  record.o[CHOOSE i \in 1..Len(record.o) : record.o[i][1] = key][2]

\* CreateDataProperty, as JSON.parse defines the members it reads: an
\* existing property keeps its place, a new one is added last.
CreateDataProperty(out, key, value) ==
  IF HasOwn(out, key)
  THEN JObj([i \in 1..Len(out.o) |->
              IF out.o[i][1] = key THEN <<key, value>> ELSE out.o[i]])
  ELSE JObj(Append(out.o, <<key, value>>))

\* out[key] = value on an object created by {}: an ordinary key becomes
\* an own property; the key __proto__ reaches the accessor inherited from
\* Object.prototype, which stores no own property (it replaces the
\* prototype of out when value is an object or null), so Object.keys and
\* JSON.stringify see nothing of it.
ObjSet(out, key, value) ==
  IF key = "__proto__" THEN out
  ELSE CreateDataProperty(out, key, value)

(***************************************************************************)
(* binary.ts: floatToHexLE, hexToFloatLE and the migration transforms.     *)
(***************************************************************************)
Hex8Len == 8

\* HEX8_RE.test(s).
Hex8Re(s) == HexRe(Hex8Len, s)

\* floatToHexLE without the final toUpperCase().
FloatToHexLower(value, nanBytes) ==
  Flatten([i \in 1..4 |-> ByteToHexLower(NumberToF32Bytes(value, nanBytes)[i])])

\* floatToHexLE(value): setFloat32 into a 4-byte buffer, hex, upper case.
FloatToHexLE(value, nanBytes) ==
  ToUpperCase(Flatten([i \in 1..4 |-> ByteToHexLower(NumberToF32Bytes(value, nanBytes)[i])]))

\* hexToFloatLE reading the four bytes big-endian.
HexToFloatBE(hex8) ==
  IF ~Hex8Re(hex8) THEN Throw("Invalid float hex.")
  ELSE LET b == HexToBytes(hex8)
       IN  Ok(F32BytesToNumber(<<b[4], b[3], b[2], b[1]>>))

\* hexToFloatLE(hex8): the Number read back, or the error thrown.
HexToFloatLE(hex8) ==
  IF ~Hex8Re(hex8) THEN Throw("Invalid float hex.")
  ELSE Ok(F32BytesToNumber(HexToBytes(hex8)))

RECURSIVE TransformValueForEncrypt(_)
RECURSIVE TransformStyleForEncrypt(_)
RECURSIVE EncryptKeys(_, _, _)
RECURSIVE StyleEncryptKeys(_, _, _)

\* The loop "for (const key of keys)" of transformValueForEncrypt, from
\* the i-th key on, with out as built so far.
EncryptKeys(record, i, out) ==
  IF i > Len(record.o) THEN out
  ELSE
    LET key == record.o[i][1]
        val == record.o[i][2]
    IN  IF key = "sing_model"
        THEN IF HasOwn(record, "pitch_model")
             THEN EncryptKeys(record, i + 1, out)
             ELSE EncryptKeys(record, i + 1,
                    ObjSet(out, "pitch_model", TransformValueForEncrypt(val)))
        ELSE IF key = "styles" /\ IsArray(val)
        THEN EncryptKeys(record, i + 1,
               ObjSet(out, "styles",
                 JArr([j \in 1..Len(val.a) |-> TransformStyleForEncrypt(val.a[j])])))
        ELSE EncryptKeys(record, i + 1,
               ObjSet(out, key, TransformValueForEncrypt(val)))

TransformValueForEncrypt(value) ==
  IF IsArray(value)
  THEN JArr([j \in 1..Len(value.a) |-> TransformValueForEncrypt(value.a[j])])
  ELSE IF ~IsPlainObject(value) THEN value
  ELSE EncryptKeys(value, 1, JObj(<<>>))

\* The loop of transformStyleForEncrypt. floatToHexLE is reached only
\* with a finite number, so no NaN encoding is ever chosen here.
StyleEncryptKeys(record, i, out) ==
  IF i > Len(record.o) THEN out
  ELSE
    LET key == record.o[i][1]
        val == record.o[i][2]
    IN  IF key = "extra"
        THEN IF IsNumber(val) /\ IsFinite(val.n)
             THEN StyleEncryptKeys(record, i + 1,
                    ObjSet(out, "extra", JStr(FloatToHexLE(val.n, <<0, 0, 192, 127>>))))
             ELSE IF IsString(val) /\ Hex8Re(val.s)
             THEN StyleEncryptKeys(record, i + 1,
                    ObjSet(out, "extra", JStr(ToUpperCase(val.s))))
             ELSE StyleEncryptKeys(record, i + 1, ObjSet(out, "extra", val))
        ELSE StyleEncryptKeys(record, i + 1,
               ObjSet(out, key, TransformValueForEncrypt(val)))

TransformStyleForEncrypt(value) ==
  IF ~IsPlainObject(value) THEN TransformValueForEncrypt(value)
  ELSE StyleEncryptKeys(value, 1, JObj(<<>>))

RECURSIVE TransformValueForDecrypt(_)
RECURSIVE TransformStyleForDecrypt(_)
RECURSIVE DecryptKeys(_, _, _)
RECURSIVE StyleDecryptKeys(_, _, _)

DecryptKeys(record, i, out) ==
  IF i > Len(record.o) THEN out
  ELSE
    LET key == record.o[i][1]
        val == record.o[i][2]
    IN  IF key = "pitch_model"
        THEN IF HasOwn(record, "sing_model")
             THEN DecryptKeys(record, i + 1, out)
             ELSE DecryptKeys(record, i + 1,
                    ObjSet(out, "sing_model", TransformValueForDecrypt(val)))
        ELSE IF key = "styles" /\ IsArray(val)
        THEN DecryptKeys(record, i + 1,
               ObjSet(out, "styles",
                 JArr([j \in 1..Len(val.a) |-> TransformStyleForDecrypt(val.a[j])])))
        ELSE DecryptKeys(record, i + 1,
               ObjSet(out, key, TransformValueForDecrypt(val)))

TransformValueForDecrypt(value) ==
  IF IsArray(value)
  THEN JArr([j \in 1..Len(value.a) |-> TransformValueForDecrypt(value.a[j])])
  ELSE IF ~IsPlainObject(value) THEN value
  ELSE DecryptKeys(value, 1, JObj(<<>>))

StyleDecryptKeys(record, i, out) ==
  IF i > Len(record.o) THEN out
  ELSE
    LET key == record.o[i][1]
        val == record.o[i][2]
    IN  IF key = "extra"
        THEN IF IsString(val) /\ Hex8Re(val.s)
             THEN StyleDecryptKeys(record, i + 1,
                    ObjSet(out, "extra", JNum(HexToFloatLE(val.s).v)))
             ELSE StyleDecryptKeys(record, i + 1,
                    ObjSet(out, "extra", TransformValueForDecrypt(val)))
        ELSE StyleDecryptKeys(record, i + 1,
               ObjSet(out, key, TransformValueForDecrypt(val)))

TransformStyleForDecrypt(value) ==
  IF ~IsPlainObject(value) THEN TransformValueForDecrypt(value)
  ELSE StyleDecryptKeys(value, 1, JObj(<<>>))

(***************************************************************************)
(* JSON text.  A text is a sequence of tokens: punctuation, string         *)
(* literals, number literals (each carrying the double it denotes),        *)
(* true/false/null, and whitespace.                                        *)
(***************************************************************************)
P(c) == [k |-> "p", c |-> c]
TStr(s) == [k |-> "str", s |-> s]
TNum(n) == [k |-> "num", n |-> n]
TLit(v) == [k |-> "lit", v |-> v]
Ws == [k |-> "ws"]

IsP(tok, c) == tok.k = "p" /\ tok.c = c

RECURSIVE StringifyValue(_)
RECURSIVE StringifyElements(_, _)
RECURSIVE StringifyMembers(_, _)

StringifyElements(a, i) ==
  IF i > Len(a) THEN <<>>
  ELSE (IF i > 1 THEN <<P(",")>> ELSE <<>>)
       \o StringifyValue(a[i]) \o StringifyElements(a, i + 1)

StringifyMembers(o, i) ==
  IF i > Len(o) THEN <<>>
  ELSE (IF i > 1 THEN <<P(",")>> ELSE <<>>)
       \o <<TStr(o[i][1]), P(":")>> \o StringifyValue(o[i][2])
       \o StringifyMembers(o, i + 1)

\* JSON.stringify(value), compact: -0 is written 0, a non-finite number
\* is written null.
StringifyValue(value) ==
  CASE value.t = "null" -> <<TLit("null")>>
    [] value.t = "bool" -> <<TLit(IF value.b THEN "true" ELSE "false")>>
    [] value.t = "num" ->
         IF ~IsFinite(value.n) THEN <<TLit("null")>>
         ELSE IF IsZero(value.n) THEN <<TNum(Fin(0, 0, 0))>>
         ELSE <<TNum(value.n)>>
    [] value.t = "str" -> <<TStr(value.s)>>
    [] value.t = "arr" -> <<P("[")>> \o StringifyElements(value.a, 1) \o <<P("]")>>
    [] value.t = "obj" -> <<P("{")>> \o StringifyMembers(value.o, 1) \o <<P("}")>>

JsonStringify(value) == StringifyValue(value)

ParseFail == [ok |-> FALSE, v |-> JNull, next |-> 0]
Parsed(v, next) == [ok |-> TRUE, v |-> v, next |-> next]

RECURSIVE ParseValue(_, _)
RECURSIVE ParseElements(_, _, _)
RECURSIVE ParseMembers(_, _, _)

ParseElements(ts, i, acc) ==
  LET r == ParseValue(ts, i)
  IN  IF ~r.ok \/ r.next > Len(ts) THEN ParseFail
      ELSE IF IsP(ts[r.next], ",") THEN ParseElements(ts, r.next + 1, Append(acc, r.v))
      ELSE IF IsP(ts[r.next], "]") THEN Parsed(JArr(Append(acc, r.v)), r.next + 1)
      ELSE ParseFail

\* A repeated key keeps its first place and takes the last value.
ParseMembers(ts, i, out) ==
  IF i + 2 > Len(ts) \/ ts[i].k # "str" \/ ~IsP(ts[i + 1], ":") THEN ParseFail
  ELSE LET r == ParseValue(ts, i + 2)
       IN  IF ~r.ok \/ r.next > Len(ts) THEN ParseFail
           ELSE IF IsP(ts[r.next], ",")
                THEN ParseMembers(ts, r.next + 1, CreateDataProperty(out, ts[i].s, r.v))
           ELSE IF IsP(ts[r.next], "}")
                THEN Parsed(CreateDataProperty(out, ts[i].s, r.v), r.next + 1)
           ELSE ParseFail

ParseValue(ts, i) ==
  IF i > Len(ts) THEN ParseFail
  ELSE LET tok == ts[i]
       IN  CASE tok.k = "str" -> Parsed(JStr(tok.s), i + 1)
             [] tok.k = "num" -> Parsed(JNum(tok.n), i + 1)
             [] tok.k = "lit" ->
                  Parsed(IF tok.v = "null" THEN JNull ELSE JBool(tok.v = "true"), i + 1)
             [] IsP(tok, "[") ->
                  IF i < Len(ts) /\ IsP(ts[i + 1], "]") THEN Parsed(JArr(<<>>), i + 2)
                  ELSE ParseElements(ts, i + 1, <<>>)
             [] IsP(tok, "{") ->
                  IF i < Len(ts) /\ IsP(ts[i + 1], "}") THEN Parsed(JObj(<<>>), i + 2)
                  ELSE ParseMembers(ts, i + 1, JObj(<<>>))
             [] OTHER -> ParseFail

\* JSON.parse(text): the value, or the SyntaxError thrown.
JsonParse(text) ==
  LET ts == SelectSeq(text, LAMBDA tok : tok.k # "ws")
      r == ParseValue(ts, 1)
  IN  IF r.ok /\ r.next = Len(ts) + 1 THEN Ok(r.v) ELSE Throw("SyntaxError")

RECURSIVE DecDigits(_)
DecDigits(n) == IF n < 10 THEN 1 ELSE 1 + DecDigits(n \div 10)

\* The length of Number.prototype.toString for a finite double that is
\* written without an exponent (1e-6 <= |x| < 1e21, or zero): the digits
\* of the integer part and, for a dyadic fraction with -e binary places,
\* exactly -e decimal places.
NumberTextLen(x) ==
  (IF x.s = 1 /\ x.m # 0 THEN 1 ELSE 0)
  + (IF x.e >= 0 THEN DecDigits(x.m * 2^x.e)
     ELSE DecDigits(x.m \div 2^(-x.e)) + 1 + (-x.e))

TokenLen(tok) ==
  CASE tok.k = "p" -> 1
    [] tok.k = "ws" -> 1
    [] tok.k = "lit" -> IF tok.v = "false" THEN 5 ELSE 4
    [] tok.k = "str" -> 2 + Len(tok.s)
    [] tok.k = "num" -> NumberTextLen(tok.n)

RECURSIVE SumLen(_, _)
SumLen(text, i) == IF i > Len(text) THEN 0 ELSE TokenLen(text[i]) + SumLen(text, i + 1)

\* Buffer.from(text, "utf8").length; the characters of the model are ASCII.
Utf8Len(text) == SumLen(text, 1)

(***************************************************************************)
(* BinaryCodec: the NOFS container.  A buffer is a sequence of cells: a    *)
(* byte 0..255, or [ct |-> j], the j-th byte of the ciphertext the cipher  *)
(* produced (AES-256-CBC under the fixed KEY is an ideal cipher here: its  *)
(* output reveals nothing but its length, and only deciphering the same    *)
(* bytes under the same IV gives the plaintext back).                      *)
(***************************************************************************)
HEADER_TEMPLATE_HEX ==
  Flatten(<<
    <<"8", "0", "F", "5", "0", "0", "0", "0", "0", "A", "0", "0", "0", "0", "0", "0", "0", "0", "0", "0", "0", "0", "0", "0", "0", "0", "0", "0", "0", "0", "0", "0">>,
    <<"4", "4", "0", "0", "0", "0", "0", "0", "0", "0", "1", "0", "E", "6", "3", "3", "B", "A", "B", "A", "5", "4", "0", "0", "0", "0", "0", "0", "0", "0", "0", "0">>,
    <<"0", "0", "0", "0", "0", "2", "4", "C", "8", "6", "B", "E", "7", "6", "0", "0", "0", "0", "0", "0", "0", "0", "0", "0", "0", "0", "0", "0", "2", "4", "5", "C">>,
    <<"5", "C", "6", "9", "9", "5", "0", "0", "0", "0", "0", "0", "0", "0", "0", "0", "0", "0", "0", "0", "A", "0", "3", "A", "9", "6", "9", "6", "B", "0", "0", "0">>,
    <<"0", "0", "0", "0", "0", "0", "0", "0", "0", "0", "0", "0", "0", "0", "0", "0", "0", "0", "0", "0", "0", "0", "0", "0", "0", "0", "0", "0", "0", "0", "0", "0">>,
    <<"4", "4", "0", "0", "0", "0", "0", "0", "2", "2", "0", "0", "0", "0", "0", "0", "0", "1", "0", "0", "1", "2", "0", "0", "2", "E", "6", "6", "6", "5", "6", "1">>,
    <<"7", "4", "7", "5", "7", "2", "6", "5", "5", "F", "6", "6", "3", "0", "5", "F", "7", "6", "6", "9", "6", "2", "6", "D", "6", "F", "6", "4", "0", "0", "0", "0">>,
    <<"0", "0", "0", "0", "2", "2", "0", "0", "0", "0", "0", "0", "1", "F", "0", "0", "0", "0", "0", "0", "0", "1", "0", "0", "0", "F", "0", "0", "2", "E", "6", "6">>,
    <<"6", "5", "6", "1", "7", "4", "7", "5", "7", "2", "6", "5", "5", "F", "6", "6", "3", "0", "5", "F", "6", "F", "7", "2", "6", "E", "0", "0", "0", "0", "0", "0">>,
    <<"0", "0", "1", "F", "0", "0", "0", "0", "0", "0", "1", "B", "0", "0", "0", "0", "0", "0", "0", "1", "0", "0", "0", "B", "0", "0", "6", "6", "3", "0", "6", "D">>,
    <<"6", "F", "6", "4", "6", "5", "6", "C", "2", "D", "6", "4", "6", "4", "7", "3", "0", "0", "0", "0", "0", "0", "0", "0", "1", "B", "0", "0", "0", "0", "0", "0">>,
    <<"2", "8", "1", "0", "0", "0", "0", "0", "0", "1", "0", "0", "0", "4", "0", "0", "7", "E", "7", "F", "7", "F", "7", "F", "1", "4", "1", "0", "0", "0", "0", "0">> >>)

HEADER_SIZE == 192
SVDB_MAGIC == <<83, 86, 68, 66>>
AesBlock == 16
IvLen == 16
OffTotal == 176
OffSvdb == 188

\* buf.writeUInt32LE(value, offset).
UInt32LE(value) ==
  << value % 256, (value \div 256) % 256, (value \div 65536) % 256,
     value \div 16777216 >>

WriteUInt32LE(buf, value, offset) ==
  [i \in 1..Len(buf) |->
    IF i > offset /\ i <= offset + 4 THEN UInt32LE(value)[i - offset] ELSE buf[i]]

\* buf.readUInt32LE(offset).
ReadUInt32LE(buf, offset) ==
  buf[offset + 1] + 256 * buf[offset + 2] + 65536 * buf[offset + 3]
  + 16777216 * buf[offset + 4]

BuildHeaderSwapped(svdbLength) ==
  LET template == HexToBytes(HEADER_TEMPLATE_HEX)
  IN  IF Len(template) # HEADER_SIZE THEN Throw("Invalid NOFS header template.")
      ELSE Ok(WriteUInt32LE(WriteUInt32LE(template, svdbLength, OffTotal),
                            svdbLength + 20, OffSvdb))

\* binary.ts: buildHeader.
BuildHeader(svdbLength) ==
  LET template == HexToBytes(HEADER_TEMPLATE_HEX)
  IN  IF Len(template) # HEADER_SIZE THEN Throw("Invalid NOFS header template.")
      ELSE Ok(WriteUInt32LE(WriteUInt32LE(template, svdbLength + 20, OffTotal),
                            svdbLength, OffSvdb))

\* cipher.update(plaintext) followed by cipher.final(): PKCS#7 pads to the
\* next multiple of the block size, a whole block when already aligned.
AesCbcEncrypt(iv, plaintext) ==
  [j \in 1..(AesBlock * ((Utf8Len(plaintext) \div AesBlock) + 1)) |-> [ct |-> j]]

\* decipher.update(ciphertext) followed by decipher.final(): the sealed
\* plaintext for the bytes and IV it was sealed under; anything else fails
\* the padding check (or deciphers to bytes that are not the JSON sealed).
AesCbcDecrypt(iv, ciphertext) ==
  IF sealed # None /\ sealed.iv = iv /\ sealed.ct = ciphertext
  THEN Ok(sealed.pt)
  ELSE Throw("bad decrypt")

\* binary.ts: transformJsonForEncrypt.
TransformJsonForEncrypt(text) ==
  LET parsed == JsonParse(text)
  IN  IF ~parsed.ok THEN parsed
      ELSE Ok(JsonStringify(TransformValueForEncrypt(parsed.v)))

\* binary.ts: transformJsonForDecrypt.
TransformJsonForDecrypt(text) ==
  LET parsed == JsonParse(text)
  IN  IF ~parsed.ok THEN parsed
      ELSE Ok(JsonStringify(TransformValueForDecrypt(parsed.v)))

\* encryptJsonToNofs(jsonTextUtf8), with iv the bytes crypto.randomBytes
\* returns: the container, or the error thrown.
EncryptJsonToNofs(jsonTextUtf8, iv) ==
  LET transformed == TransformJsonForEncrypt(jsonTextUtf8)
  IN  IF ~transformed.ok THEN transformed
      ELSE
        LET ciphertext == AesCbcEncrypt(iv, transformed.v)
            svdbLength == 20 + Len(ciphertext)
            header == BuildHeader(svdbLength)
            trailer == UInt32LE(svdbLength + 20)
        IN  IF ~header.ok THEN header
            ELSE Ok(header.v \o SVDB_MAGIC \o iv \o ciphertext \o trailer)

\* decryptNofsToJson with one comparison of the length check left out
\* (skip names the field that goes unchecked).
DecryptUnchecked(nofsBytes, skip) ==
  IF Len(nofsBytes) < HEADER_SIZE + 4 + 16 + 4
  THEN Throw("Invalid NOFS file size.")
  ELSE IF SubSeq(nofsBytes, HEADER_SIZE + 1, HEADER_SIZE + 4) # SVDB_MAGIC
  THEN Throw("Missing SVDB header.")
  ELSE
    LET ivStart == HEADER_SIZE + 4
        iv == SubSeq(nofsBytes, ivStart + 1, ivStart + 16)
        ciphertext == SubSeq(nofsBytes, ivStart + 16 + 1, Len(nofsBytes) - 4)
        svdbLength == 20 + Len(ciphertext)
        headerSvdb == ReadUInt32LE(nofsBytes, OffSvdb)
        headerTotal == ReadUInt32LE(nofsBytes, OffTotal)
        trailer == ReadUInt32LE(nofsBytes, Len(nofsBytes) - 4)
    IN  IF (skip # "svdb" /\ headerSvdb # svdbLength)
           \/ (skip # "total" /\ headerTotal # svdbLength + 20)
           \/ (skip # "trailer" /\ trailer # svdbLength + 20)
        THEN Throw("NOFS length fields mismatch.")
        ELSE LET plaintext ==
                   AesCbcDecrypt(iv, SubSeq(sealed.ct, 1, Len(sealed.ct)))
             IN  IF ~plaintext.ok THEN plaintext
                 ELSE TransformJsonForDecrypt(plaintext.v)

DecryptNoTrailerCheck(nofsBytes) == DecryptUnchecked(nofsBytes, "trailer")
DecryptNoSvdbCheck(nofsBytes) == DecryptUnchecked(nofsBytes, "svdb")

\* decryptNofsToJson(nofsBytes): the JSON text, or the error thrown.
DecryptNofsToJson(nofsBytes) ==
  IF Len(nofsBytes) < HEADER_SIZE + 4 + 16 + 4
  THEN Throw("Invalid NOFS file size.")
  ELSE IF SubSeq(nofsBytes, HEADER_SIZE + 1, HEADER_SIZE + 4) # SVDB_MAGIC
  THEN Throw("Missing SVDB header.")
  ELSE
    LET ivStart == HEADER_SIZE + 4
        iv == SubSeq(nofsBytes, ivStart + 1, ivStart + 16)
        ciphertext == SubSeq(nofsBytes, ivStart + 16 + 1, Len(nofsBytes) - 4)
        svdbLength == 20 + Len(ciphertext)
        headerSvdb == ReadUInt32LE(nofsBytes, OffSvdb)
        headerTotal == ReadUInt32LE(nofsBytes, OffTotal)
        trailer == ReadUInt32LE(nofsBytes, Len(nofsBytes) - 4)
    IN  IF headerSvdb # svdbLength \/ headerTotal # svdbLength + 20
           \/ trailer # svdbLength + 20
        THEN Throw("NOFS length fields mismatch.")
        ELSE LET plaintext == AesCbcDecrypt(iv, ciphertext)
             IN  IF ~plaintext.ok THEN plaintext
                 ELSE TransformJsonForDecrypt(plaintext.v)

(***************************************************************************)
(* Double arithmetic.  Sums and products are exact while the significand   *)
(* of the result stays below 2^31, which the inputs of the model ensure;   *)
(* the only rounding is the one a float32 store performs.                  *)
(***************************************************************************)
Signed(x) == IF x.s = 1 THEN -x.m ELSE x.m
AbsInt(n) == IF n < 0 THEN -n ELSE n
Min(a, b) == IF a < b THEN a ELSE b

\* Math.abs(x).
NumAbs(x) == [x EXCEPT !.s = 0]

\* x * y.
NumMul(x, y) ==
  LET s == (x.s + y.s) % 2
  IN  CASE x.k = "nan" \/ y.k = "nan" -> NaN
        [] x.k = "inf" -> IF IsZero(y) THEN NaN ELSE Inf(s)
        [] y.k = "inf" -> IF IsZero(x) THEN NaN ELSE Inf(s)
        [] OTHER -> Fin(s, x.m * y.m, x.e + y.e)

\* x + y.
NumAdd(x, y) ==
  CASE x.k = "nan" \/ y.k = "nan" -> NaN
    [] x.k = "inf" -> IF y.k = "inf" /\ y.s # x.s THEN NaN ELSE x
    [] y.k = "inf" -> y
    [] IsZero(x) /\ IsZero(y) -> Fin(IF x.s = 1 /\ y.s = 1 THEN 1 ELSE 0, 0, 0)
    [] IsZero(x) -> y
    [] IsZero(y) -> x
    [] OTHER ->
         LET c == Min(x.e, y.e)
             v == Signed(x) * 2^(x.e - c) + Signed(y) * 2^(y.e - c)
         IN  Fin(IF v < 0 THEN 1 ELSE 0, AbsInt(v), c)

\* The float32 stored by "out[i] = x / y" for y # 0: the double
\* quotient is rounded once more by the store.  The quotient's bits are
\* computed with a sticky bit, so the float32 rounding is that of the
\* exact quotient (rounding through the 53-bit double changes nothing for
\* operands of at most 24 significant bits).
DivToF32Bytes(x, y, nanBytes) ==
  CASE x.k = "nan" \/ y.k = "nan" -> nanBytes
    [] x.k = "inf" -> IF y.k = "inf" THEN nanBytes
                      ELSE F32Bytes((x.s + y.s) % 2, 255, 0)
    [] y.k = "inf" -> F32Bytes((x.s + y.s) % 2, 0, 0)
    [] IsZero(x) -> F32Bytes((x.s + y.s) % 2, 0, 0)
    [] OTHER ->
         LET k == 30 - BitLen(x.m)
             num == x.m * 2^k
             Q == num \div y.m
             R == num % y.m
             m2 == IF R = 0 THEN Q ELSE 2 * Q + 1
             e2 == IF R = 0 THEN x.e - y.e - k ELSE x.e - y.e - k - 1
         IN  FinToF32Bytes(Fin((x.s + y.s) % 2, m2, e2))

(***************************************************************************)
(* Mixer: l2Magnitude is left to the claims that need it; mixVectors.      *)
(***************************************************************************)
\* vec[j] for a Float32Array: undefined, which arithmetic turns into NaN,
\* beyond its length.
VecAt(vec, j) == IF j <= Len(vec) THEN F32BytesToNumber(vec[j]) ELSE NaN

\* new Float32Array(n): all +0.
ZeroVec(n) == Repeat(F32Bytes(0, 0, 0), n)

RECURSIVE MixLoopNet(_, _, _, _, _)
MixLoopNet(vectors, weights, i, acc, nanBytes) ==
  IF i > Len(weights) THEN acc
  ELSE
    LET weight == weights[i]
        vec == vectors[i]
    IN  MixLoopNet(vectors, weights, i + 1,
          [sumAbs |-> NumAdd(acc.sumAbs, weight),
           out |-> [j \in 1..Len(acc.out) |->
                     NumberToF32Bytes(
                       NumAdd(F32BytesToNumber(acc.out[j]),
                              NumMul(VecAt(vec, j), weight)), nanBytes)]],
          nanBytes)

RECURSIVE MixLoop(_, _, _, _, _)
\* The loop "for (let i = 0; i < weights.length; i += 1)" of mixVectors
\* from channel i on; acc is [sumAbs, out] so far.
MixLoop(vectors, weights, i, acc, nanBytes) ==
  IF i > Len(weights) THEN acc
  ELSE
    LET weight == weights[i]
        vec == vectors[i]
    IN  MixLoop(vectors, weights, i + 1,
          [sumAbs |-> NumAdd(acc.sumAbs, NumAbs(weight)),
           out |-> [j \in 1..Len(acc.out) |->
                     NumberToF32Bytes(
                       NumAdd(F32BytesToNumber(acc.out[j]),
                              NumMul(VecAt(vec, j), weight)), nanBytes)]],
          nanBytes)

\* sumAbs === 0.
NumIsZero(x) == IsZero(x)

\* mixVectors returning the accumulator when sumAbs is zero.
MixVectorsKeepOut(vectors, weights, nanBytes) ==
  IF Len(vectors) # Len(weights) THEN Throw("Weights length mismatch.")
  ELSE
    LET acc == MixLoop(vectors, weights, 1,
                       [sumAbs |-> Fin(0, 0, 0), out |-> ZeroVec(VecLen)], nanBytes)
    IN  IF NumIsZero(acc.sumAbs)
        THEN Ok([vector |-> acc.out, sumAbs |-> acc.sumAbs])
        ELSE Ok([vector |-> [j \in 1..VecLen |->
                              DivToF32Bytes(F32BytesToNumber(acc.out[j]),
                                            acc.sumAbs, nanBytes)],
                 sumAbs |-> acc.sumAbs])

\* mixVectors rejecting only too few vectors.
MixVectorsFewer(vectors, weights, nanBytes) ==
  IF Len(vectors) < Len(weights) THEN Throw("Weights length mismatch.")
  ELSE
    LET acc == MixLoop(vectors, weights, 1,
                       [sumAbs |-> Fin(0, 0, 0), out |-> ZeroVec(VecLen)], nanBytes)
    IN  IF NumIsZero(acc.sumAbs)
        THEN Ok([vector |-> ZeroVec(VecLen), sumAbs |-> acc.sumAbs])
        ELSE Ok([vector |-> [j \in 1..VecLen |->
                              DivToF32Bytes(F32BytesToNumber(acc.out[j]),
                                            acc.sumAbs, nanBytes)],
                 sumAbs |-> acc.sumAbs])

\* mixVectors(vectors, weights): {vector, sumAbs}, or the error thrown.
MixVectors(vectors, weights, nanBytes) ==
  IF Len(vectors) # Len(weights) THEN Throw("Weights length mismatch.")
  ELSE
    LET acc == MixLoop(vectors, weights, 1,
                       [sumAbs |-> Fin(0, 0, 0), out |-> ZeroVec(VecLen)], nanBytes)
    IN  IF NumIsZero(acc.sumAbs)
        THEN Ok([vector |-> ZeroVec(VecLen), sumAbs |-> acc.sumAbs])
        ELSE Ok([vector |-> [j \in 1..VecLen |->
                              DivToF32Bytes(F32BytesToNumber(acc.out[j]),
                                            acc.sumAbs, nanBytes)],
                 sumAbs |-> acc.sumAbs])

(***************************************************************************)
(* Mixer: l2Magnitude and setMagnitude.                                    *)
(***************************************************************************)
\* Math.sqrt(x).  The square root of a finite positive double is taken
\* exactly: the magnitudes of the model are dyadic rationals (the sum of
\* squares is m * 2^e with m an odd square and e even); no value is
\* defined for any other finite positive x.
NumSqrt(x) ==
  CASE x.k = "nan" -> NaN
    [] x.k = "inf" -> IF x.s = 1 THEN NaN ELSE x
    [] x.m = 0 -> x
    [] x.s = 1 -> NaN
    [] OTHER -> Fin(0, CHOOSE r \in 1..x.m : r * r = x.m /\ x.e % 2 = 0,
                    x.e \div 2)

RECURSIVE SumSquares(_, _, _)
\* The loop of l2Magnitude from element i on: sum += v * v.
SumSquares(vec, i, sum) ==
  IF i > Len(vec) THEN sum
  ELSE LET v == F32BytesToNumber(vec[i])
           next == NumAdd(sum, NumMul(v, v))
       IN  IF next.k = "nan" THEN SumSquares(vec, i + 1, NaN)
           ELSE SumSquares(vec, i + 1, next)

\* l2Magnitude(vec) of a Float32Array.
L2Magnitude(vec) == NumSqrt(SumSquares(vec, 1, Fin(0, 0, 0)))

\* targetMag < 0.
NumNegative(x) == x.k # "nan" /\ x.s = 1 /\ ~IsZero(x)

\* Object.is(targetMag, -0).
IsNegZero(x) == IsZero(x) /\ x.s = 1

\* x / y when x or y is not finite, y # 0.
NumDivSpecial(x, y) ==
  CASE x.k = "nan" \/ y.k = "nan" -> NaN
    [] x.k = "inf" -> IF y.k = "inf" THEN NaN ELSE Inf((x.s + y.s) % 2)
    [] OTHER -> Fin((x.s + y.s) % 2, 0, 0)

\* The loop "out[i] = vec[i] * scale" with scale = signed / mag.  For
\* finite signed and mag the float32 stored is the rounding of the exact
\* value vec[i] * signed / mag: the two roundings of the double
\* computation move it by less than 2^-51 of its size, which changes no
\* float32 rounding of a ratio of the small integers of the model.
ScaleVec(vec, signed, mag, nanBytes) ==
  [i \in 1..Len(vec) |->
    LET v == F32BytesToNumber(vec[i])
    IN  IF signed.k = "fin" /\ mag.k = "fin"
        THEN DivToF32Bytes(NumMul(v, signed), mag, nanBytes)
        ELSE NumberToF32Bytes(NumMul(v, NumDivSpecial(signed, mag)), nanBytes)]

\* setMagnitude taking the sign from "targetMag < 0" alone.
SetMagnitudeUnsignedZero(vec, targetMag, nanBytes) ==
  LET mag == L2Magnitude(vec)
  IN  IF NumIsZero(mag) THEN ZeroVec(Len(vec))
      ELSE LET sign == IF NumNegative(targetMag) THEN Fin(1, 1, 0) ELSE Fin(0, 1, 0)
           IN  ScaleVec(vec, NumMul(NumAbs(targetMag), sign), mag, nanBytes)

\* setMagnitude returning its argument when the magnitude is zero.
SetMagnitudeKeepZero(vec, targetMag, nanBytes) ==
  LET mag == L2Magnitude(vec)
  IN  IF NumIsZero(mag) THEN vec
      ELSE LET isNegZero == IsNegZero(targetMag)
               sign == IF NumNegative(targetMag) \/ isNegZero
                       THEN Fin(1, 1, 0) ELSE Fin(0, 1, 0)
           IN  ScaleVec(vec, NumMul(NumAbs(targetMag), sign), mag, nanBytes)

\* setMagnitude(vec, targetMag): the Float32Array returned.
SetMagnitude(vec, targetMag, nanBytes) ==
  LET mag == L2Magnitude(vec)
  IN  IF NumIsZero(mag) THEN ZeroVec(Len(vec))
      ELSE LET isNegZero == IsNegZero(targetMag)
               sign == IF NumNegative(targetMag) \/ isNegZero
                       THEN Fin(1, 1, 0) ELSE Fin(0, 1, 0)
           IN  ScaleVec(vec, NumMul(NumAbs(targetMag), sign), mag, nanBytes)

(***************************************************************************)
(* ConfigValidator: validateNofsData.  A string is the sequence of its     *)
(* characters; an object key is a TLA+ string.                             *)
(***************************************************************************)
japanese == <<"j", "a", "p", "a", "n", "e", "s", "e">>
english == <<"e", "n", "g", "l", "i", "s", "h">>
mandarin == <<"m", "a", "n", "d", "a", "r", "i", "n">>
cantonese == <<"c", "a", "n", "t", "o", "n", "e", "s", "e">>
spanish == <<"s", "p", "a", "n", "i", "s", "h">>
romaji == <<"r", "o", "m", "a", "j", "i">>
arpabet == <<"a", "r", "p", "a", "b", "e", "t">>
xsampa == <<"x", "s", "a", "m", "p", "a">>

ALLOWED_LANGUAGES == {japanese, english, mandarin, cantonese, spanish}

\* PHONESET_BY_LANGUAGE.get(key); undefined is written <<>> (no phoneset
\* of the map is the empty string).
PHONESET_BY_LANGUAGE(key) ==
  CASE key = japanese -> romaji
    [] key = english -> arpabet
    [] key = mandarin -> xsampa
    [] key = cantonese -> xsampa
    [] key = spanish -> xsampa
    [] OTHER -> <<>>

ALLOWED_SING_MODEL ==
  { <<"1","a","8","3","a","a","7","1","c","b","0","9","e","9","4","b","b","8","1","7","1","a","4","f","3","4","d","2","2","c","a","c">>,
    <<"2","a","7","3","9","2","0","b","4","2","0","8","f","2","d","5","b","a","5","3","b","c","e","d","8","a","5","2","8","a","1","4">>,
    <<"3","5","2","2","2","0","8","8","c","3","7","1","3","4","c","7","6","2","9","d","6","8","7","3","c","0","3","8","6","d","8","d">>,
    <<"3","f","6","4","9","a","e","6","c","b","0","4","e","e","4","f","7","e","9","a","7","e","d","7","2","e","e","2","9","9","2","8">>,
    <<"4","f","4","b","f","0","c","0","a","e","3","3","5","7","1","c","7","9","e","2","1","b","1","c","2","5","9","9","3","e","1","5">>,
    <<"7","6","d","1","e","7","1","c","9","3","6","b","8","2","7","1","4","d","0","e","a","d","9","6","2","8","9","0","3","3","5","5">>,
    <<"9","2","e","5","e","f","5","b","1","0","e","6","8","b","e","f","3","c","1","f","b","0","3","c","8","8","0","e","6","b","e","2">>,
    <<"b","0","d","b","c","9","3","a","d","9","6","3","6","6","0","1","a","8","a","2","4","4","2","5","7","8","8","a","8","8","4","e">> }

ALLOWED_BASE_MODEL ==
  { <<"0","c","c","8","e","4","7","f","4","c","b","c","5","5","2","7","4","c","8","a","f","9","d","d","d","3","b","9","9","9","5","2">>,
    <<"2","c","2","3","3","d","8","e","9","b","1","9","f","1","f","4","d","c","0","2","7","6","b","a","3","a","5","5","4","2","c","1">>,
    <<"6","e","5","d","a","1","9","1","f","a","a","4","2","1","a","2","0","b","5","2","9","b","4","0","c","3","a","a","4","9","6","8">>,
    <<"a","0","a","5","c","c","5","b","7","0","b","4","e","3","a","3","f","e","5","e","b","0","7","1","a","b","7","0","c","6","1","4">>,
    <<"a","1","7","4","a","4","4","5","b","8","7","1","f","7","0","3","0","c","0","6","c","b","e","2","7","4","c","1","3","3","8","9">>,
    <<"b","c","e","f","8","d","9","3","9","a","3","6","5","0","f","8","6","d","e","9","c","3","0","2","b","9","f","4","0","5","6","d">>,
    <<"c","a","6","3","4","5","d","2","1","b","f","d","0","2","3","c","1","b","1","5","2","0","3","8","8","3","a","4","3","1","a","8">>,
    <<"d","a","d","7","7","4","b","8","8","7","8","2","3","7","4","1","d","a","c","3","4","5","c","0","d","9","9","1","5","6","2","8">>,
    <<"e","6","e","3","e","6","9","c","5","e","1","a","d","c","6","d","1","1","c","f","8","f","a","e","2","8","2","c","2","f","6","b">>,
    <<"e","9","d","9","7","f","2","3","d","2","8","c","3","f","d","4","5","d","7","c","b","8","a","9","6","7","1","b","2","3","4","d">>,
    <<"e","f","3","c","4","c","6","0","6","a","7","c","4","b","0","6","6","8","f","d","d","3","1","f","4","9","3","0","8","1","e","e">>,
    <<"f","9","8","e","e","f","e","8","9","2","2","c","4","a","7","a","d","a","d","0","7","e","4","d","1","5","2","d","0","3","9","b">> }

ALLOWED_TIMING_MODEL ==
  { <<"1","5","3","7","c","8","0","7","a","8","9","2","b","b","0","0","1","3","6","c","2","2","a","8","e","d","c","e","6","b","6","4">>,
    <<"2","3","c","6","a","5","b","5","4","8","b","e","9","b","9","2","1","3","b","2","6","5","d","7","f","9","f","5","c","0","3","b">>,
    <<"3","0","1","2","6","4","b","6","f","8","f","7","4","8","6","7","5","9","f","0","1","4","8","d","2","b","7","4","6","d","d","2">>,
    <<"3","3","d","9","a","f","f","2","0","e","1","d","c","7","f","1","e","3","8","1","c","f","4","5","9","4","a","1","0","4","2","9">>,
    <<"7","7","a","a","9","b","a","5","b","6","0","e","4","1","f","a","1","1","b","9","a","d","4","5","f","2","8","6","2","c","b","8">>,
    <<"7","b","0","e","a","6","9","0","a","d","a","9","4","b","4","4","8","4","b","5","0","d","9","d","6","4","a","2","1","c","a","e">>,
    <<"7","c","2","9","1","f","d","b","5","1","d","0","2","7","2","d","a","2","1","3","c","0","f","c","b","2","2","f","4","1","f","7">>,
    <<"9","c","5","3","9","3","3","0","e","b","7","5","3","6","1","9","5","9","4","7","d","d","f","9","8","8","5","1","5","1","2","8">>,
    <<"a","0","4","6","2","9","a","7","9","5","e","8","3","9","8","f","f","0","a","b","6","b","a","a","9","f","f","c","0","4","e","0">>,
    <<"b","6","f","4","d","2","a","1","a","f","8","b","e","8","f","b","2","b","6","c","1","d","2","e","b","d","b","0","c","e","1","0">> }

ALLOWED_F0_MODEL ==
  { <<"0","7","4","c","a","f","0","d","7","9","b","9","2","6","6","3","5","b","b","8","c","1","c","3","6","d","2","c","0","a","3","6">>,
    <<"2","c","8","0","c","c","2","0","9","9","7","c","e","2","2","2","7","2","4","d","4","1","f","a","f","4","4","d","0","9","1","7">>,
    <<"4","f","6","a","f","f","3","f","6","4","3","0","4","0","7","d","d","4","3","6","a","8","8","a","2","9","1","2","1","7","7","7">>,
    <<"6","3","1","6","b","7","0","b","a","3","3","c","5","e","2","4","4","6","e","c","3","4","1","0","0","a","6","7","8","f","9","8">>,
    <<"a","4","d","1","0","8","b","4","c","6","1","c","9","c","a","1","8","f","4","f","8","c","d","2","9","7","9","6","8","a","9","0">>,
    <<"a","5","9","f","b","0","1","7","6","1","a","7","1","d","1","9","3","e","4","a","f","b","d","5","5","9","b","c","4","e","6","e">>,
    <<"a","9","d","b","2","0","2","5","1","1","4","e","1","3","e","2","9","4","b","f","8","9","4","6","1","d","8","5","1","5","a","7">>,
    <<"d","c","e","e","8","9","4","4","2","f","6","9","9","8","4","1","8","9","a","5","b","2","a","e","d","b","f","9","f","0","9","0">>,
    <<"e","f","6","2","a","1","8","b","e","c","0","3","4","f","6","2","c","7","5","d","7","4","2","8","7","5","7","7","5","7","b","f">>,
    <<"f","3","a","5","3","7","8","c","1","4","1","a","1","a","f","8","8","a","3","1","1","0","5","5","f","a","d","4","8","8","f","b">> }

TOP_LEVEL_KEYS ==
  { "name", "version", "vendor", "language", "phoneset", "support_languages",
    "base_model", "sing_model", "timing_model", "f0_model", "styles", "pitch",
    "timing" }

STYLE_KEYS == {"name", "data", "extra"}

\* The value undefined.
Undefined == [t |-> "undefined"]

\* obj.key where obj passed isObject: the own property, else undefined
\* (Object.prototype has no property of the names the validator reads).
Prop(obj, key) ==
  IF obj.t = "obj" /\ HasOwn(obj, key) THEN Get(obj, key) ELSE Undefined

\* typeof value === "object".
TypeofObject(value) == value.t \in {"obj", "arr", "null"}

\* isObject without the test "value !== null".
IsObjectOrNull(value) == TypeofObject(value) /\ ~IsArray(value)

\* isObject(value).
IsObject(value) == TypeofObject(value) /\ value.t # "null" /\ ~IsArray(value)

\* Object.keys(value) throws a TypeError (ToObject of undefined or null).
ObjectKeysThrows(value) == value.t \in {"null", "undefined"}

\* toLowerCase leaving every character as it is.
KeepChar(c) == c

\* String.prototype.toLowerCase on one character (the letters A-Z; every
\* other character of the model maps to itself).
LowerChar(c) ==
  IF \E i \in 1..26 : UpperLetters[i] = c
  THEN LowerLetters[CHOOSE i \in 1..26 : UpperLetters[i] = c]
  ELSE c

ToLowerCase(s) == [i \in 1..Len(s) |-> LowerChar(s[i])]

\* The class \d of a regular expression without the u flag.
IsDigit(c) == \E i \in 1..10 : HexUpper[i] = c

\* The state of one call: the two arrays validateNofsData fills, and the
\* message of the exception that ended it ("" while none was thrown).
NoIssues == [errors |-> <<>>, warnings |-> <<>>, thrown |-> ""]

\* errors.push({ message, severity: "error", path }).
PushError(st, message, path) ==
  IF st.thrown # "" THEN st
  ELSE [st EXCEPT !.errors =
          Append(@, [message |-> message, severity |-> "error", path |-> path])]

\* warnings.push of an issue whose severity is "error".
PushWarningAsError(st, message, path) ==
  IF st.thrown # "" THEN st
  ELSE [st EXCEPT !.warnings =
          Append(@, [message |-> message, severity |-> "error", path |-> path])]

\* warnings.push({ message, severity: "warning", path }).
PushWarning(st, message, path) ==
  IF st.thrown # "" THEN st
  ELSE [st EXCEPT !.warnings =
          Append(@, [message |-> message, severity |-> "warning", path |-> path])]

\* A throw statement or a throwing built-in.
Raise(st, message) == IF st.thrown # "" THEN st ELSE [st EXCEPT !.thrown = message]

\* `"${key}" must be a string.`
MustBeString(key) ==
  CASE key = "name" -> <<"\"name\" must be a string.">>
    [] key = "vendor" -> <<"\"vendor\" must be a string.">>
    [] key = "phoneset" -> <<"\"phoneset\" must be a string.">>
    [] key = "sing_model" -> <<"\"sing_model\" must be a string.">>
    [] key = "base_model" -> <<"\"base_model\" must be a string.">>
    [] key = "timing_model" -> <<"\"timing_model\" must be a string.">>
    [] key = "f0_model" -> <<"\"f0_model\" must be a string.">>

\* `"${key}" must be one of the approved IDs.`
MustBeApproved(key) ==
  CASE key = "sing_model" -> <<"\"sing_model\" must be one of the approved IDs.">>
    [] key = "base_model" -> <<"\"base_model\" must be one of the approved IDs.">>
    [] key = "timing_model" -> <<"\"timing_model\" must be one of the approved IDs.">>
    [] key = "f0_model" -> <<"\"f0_model\" must be one of the approved IDs.">>

\* requireString(obj, key, errors).
RequireString(obj, key, st) ==
  IF ~IsString(Prop(obj, key))
  THEN PushError(st, MustBeString(key), <<key>>)
  ELSE st

\* The number of leading characters of s that satisfy \d.
DigitPrefixLen(s) ==
  CHOOSE k \in 0..Len(s) :
    /\ \A i \in 1..k : IsDigit(s[i])
    /\ k = Len(s) \/ ~IsDigit(s[k + 1])

\* /^(\d+)(?:([ab])(\d+))?$/.exec(value): null is written <<>>, a match is
\* the groups 1 to 3, an unmatched group being <<>>.
VersionExec(value) ==
  LET k == DigitPrefixLen(value)
  IN  IF k = 0 THEN <<>>
      ELSE IF k = Len(value) THEN <<value, <<>>, <<>>>>
      ELSE LET rest == SubSeq(value, k + 2, Len(value))
           IN  IF /\ value[k + 1] \in {"a", "b"}
                  /\ Len(rest) > 0
                  /\ DigitPrefixLen(rest) = Len(rest)
               THEN <<SubSeq(value, 1, k), <<value[k + 1]>>, rest>>
               ELSE <<>>

\* The number of characters "0" that s starts with.
LeadingZeros(s) ==
  CHOOSE k \in 0..Len(s) :
    /\ \A i \in 1..k : s[i] = "0"
    /\ k = Len(s) \/ s[k + 1] # "0"

RECURSIVE DecValue(_)
\* The integer written by a string of decimal digits.
DecValue(digits) ==
  IF Len(digits) = 0 THEN 0
  ELSE 10 * DecValue(SubSeq(digits, 1, Len(digits) - 1)) + HexVal(digits[Len(digits)])

\* The digits beyond which every decimal integer exceeds the largest
\* double (1.797...e308) and the digits up to which the model computes
\* the integer.
InfiniteDigits == 310
ExactDigits == 9

\* Number.parseInt(digits, 10) for a nonempty string of decimal digits:
\* Infinity from 310 significant digits on, the integer itself up to 9
\* significant digits; no value is defined in between.
ParseInt10(digits) ==
  LET sig == SubSeq(digits, LeadingZeros(digits) + 1, Len(digits))
  IN  IF Len(sig) >= InfiniteDigits THEN Inf(0)
      ELSE Fin(0, DecValue(CHOOSE d \in {sig} : Len(d) <= ExactDigits), 0)

\* Number.isInteger(x).
NumberIsInteger(x) == x.k = "fin" /\ x.e >= 0

\* validateVersion(value, errors).
ValidateVersion(value, st) ==
  IF ~IsString(value)
  THEN PushError(st, <<"\"version\" must be a string.">>, <<"version">>)
  ELSE
    LET match == VersionExec(value.s)
    IN  IF match = <<>>
        THEN PushError(st, <<"\"version\" must match <int>[a|b<int>].">>, <<"version">>)
        ELSE
          LET main == ParseInt10(match[1])
              branch == IF match[3] # <<>> THEN ParseInt10(match[3]) ELSE Fin(0, 0, 0)
          IN  IF \/ ~NumberIsInteger(main) \/ NumNegative(main)
                 \/ ~NumberIsInteger(branch) \/ NumNegative(branch)
              THEN PushError(st, <<"\"version\" must contain non-negative integers.">>,
                             <<"version">>)
              ELSE st

\* validateLanguage(value, errors, path).
ValidateLanguage(value, st, path) ==
  IF ~IsString(value)
  THEN PushError(st, <<"\"language\" must be a string.">>, path)
  ELSE
    LET normalized == ToLowerCase(value.s)
    IN  IF normalized \notin ALLOWED_LANGUAGES
        THEN PushError(st,
               <<"\"language\" must be one of: japanese, english, mandarin, cantonese, spanish.">>,
               path)
        ELSE st

\* validatePhoneset comparing the phoneset as it is written.
ValidatePhonesetCaseSensitive(language, phoneset, st) ==
  IF ~IsString(language) THEN st
  ELSE
    LET normalizedLanguage == ToLowerCase(language.s)
        expected == PHONESET_BY_LANGUAGE(normalizedLanguage)
    IN  IF expected = <<>> THEN st
        ELSE IF ~IsString(phoneset)
        THEN PushError(st, <<"\"phoneset\" must be a string.">>, <<"phoneset">>)
        ELSE IF phoneset.s # expected
        THEN PushError(st,
               <<"\"phoneset\" must be \"", expected, "\" when language is \"",
                 normalizedLanguage, "\".">>,
               <<"phoneset">>)
        ELSE st

\* validatePhoneset(language, phoneset, errors).
ValidatePhoneset(language, phoneset, st) ==
  IF ~IsString(language) THEN st
  ELSE
    LET normalizedLanguage == ToLowerCase(language.s)
        expected == PHONESET_BY_LANGUAGE(normalizedLanguage)
    IN  IF expected = <<>> THEN st
        ELSE IF ~IsString(phoneset)
        THEN PushError(st, <<"\"phoneset\" must be a string.">>, <<"phoneset">>)
        ELSE IF ToLowerCase(phoneset.s) # expected
        THEN PushError(st,
               <<"\"phoneset\" must be \"", expected, "\" when language is \"",
                 normalizedLanguage, "\".">>,
               <<"phoneset">>)
        ELSE st

RECURSIVE SupportLanguagesFrom(_, _, _, _)
\* The forEach of validateSupportLanguages from the entry of index i - 1 on.
SupportLanguagesFrom(value, i, st, path) ==
  IF i > Len(value.a) THEN st
  ELSE
    LET entry == value.a[i]
        index == i - 1
        st1 == IF ~IsString(entry)
               THEN PushError(st, <<"support_languages entries must be strings.">>,
                              Append(path, index))
               ELSE IF ToLowerCase(entry.s) \notin ALLOWED_LANGUAGES
               THEN PushError(st,
                      <<"\"support_languages\" must be one of: japanese, english, mandarin, cantonese, spanish.">>,
                      Append(path, index))
               ELSE st
    IN  SupportLanguagesFrom(value, i + 1, st1, path)

\* validateSupportLanguages(value, errors, path).
ValidateSupportLanguages(value, st, path) ==
  IF ~IsArray(value)
  THEN PushError(st, <<"\"support_languages\" must be an array.">>, path)
  ELSE SupportLanguagesFrom(value, 1, st, path)

\* validateModelId(value, allowed, key, errors).
ValidateModelId(value, allowed, key, st) ==
  IF ~IsString(value) THEN PushError(st, MustBeString(key), <<key>>)
  ELSE IF value.s \notin allowed THEN PushError(st, MustBeApproved(key), <<key>>)
  ELSE st

\* validateHex with the expression ^[0-9A-F]{length}$.
ValidateHexUpperOnly(value, length, st, path) ==
  IF ~IsString(value) THEN PushError(st, <<"Hex value must be a string.">>, path)
  ELSE IF ~(Len(value.s) = length /\ \A i \in 1..Len(value.s) : value.s[i] \in Range(HexUpper))
  THEN PushError(st, <<"Hex value must be exactly ", length, " hex characters.">>, path)
  ELSE st

\* validateHex(value, length, errors, path): the errors pushed (the
\* boolean it returns decides nothing in its callers).
ValidateHex(value, length, st, path) ==
  IF ~IsString(value) THEN PushError(st, <<"Hex value must be a string.">>, path)
  ELSE IF ~HexRe(length, value.s)
  THEN PushError(st, <<"Hex value must be exactly ", length, " hex characters.">>, path)
  ELSE st

RECURSIVE UnknownKeysFrom(_, _, _, _, _, _)
\* The loops "for (const key of Object.keys(...))" of validateNofsData
\* and validateStyles, from the i-th key on.
UnknownKeysFrom(keys, i, known, text, prefix, st) ==
  IF i > Len(keys) THEN st
  ELSE UnknownKeysFrom(keys, i + 1, known, text, prefix,
         IF keys[i] \notin known
         THEN PushWarning(st, <<text, keys[i], "\".">>, Append(prefix, keys[i]))
         ELSE st)

\* name.includes(" ").
IncludesSpace(name) == \E i \in 1..Len(name) : name[i] = " "

\* seen.add(name) forgetting the names added before.
SeenLast(seen, name) == IF IsString(name) THEN {name.s} ELSE seen

\* The set seen after the callback: seen.add(name) runs for a string name.
SeenAfter(seen, name) == IF IsString(name) THEN seen \cup {name.s} ELSE seen

\* One call of the callback of value.forEach in validateStyles: the
\* issues and the set seen after it.
StyleEntry(entry, index, acc) ==
  IF ~IsObject(entry)
  THEN [acc EXCEPT !.st = PushError(@, <<"Each style entry must be an object.">>,
                                    <<"styles", index>>)]
  ELSE IF ObjectKeysThrows(entry)
  THEN [acc EXCEPT !.st = Raise(@, "TypeError: Cannot convert undefined or null to object")]
  ELSE
    LET st1 == UnknownKeysFrom(Keys(entry), 1, STYLE_KEYS, "Unknown style key \"",
                               <<"styles", index>>, acc.st)
        name == Prop(entry, "name")
        st2 == IF ~IsString(name)
               THEN PushError(st1, <<"style.name must be a string.">>,
                              <<"styles", index, "name">>)
               ELSE
                 LET st2a == IF IncludesSpace(name.s)
                             THEN PushError(st1, <<"style.name cannot contain spaces.">>,
                                            <<"styles", index, "name">>)
                             ELSE st1
                 IN  IF name.s \in acc.seen
                     THEN PushError(st2a, <<"Duplicate style name \"", name.s, "\".">>,
                                    <<"styles", index, "name">>)
                     ELSE st2a
    IN  [st |-> ValidateHex(Prop(entry, "data"), 256, st2, <<"styles", index, "data">>),
         seen |-> SeenAfter(acc.seen, name)]

RECURSIVE StylesFrom(_, _, _)
\* value.forEach in validateStyles from the entry of index i - 1 on.
StylesFrom(value, i, acc) ==
  IF i > Len(value.a) THEN acc.st
  ELSE StylesFrom(value, i + 1, StyleEntry(value.a[i], i - 1, acc))

\* validateStyles(value, errors, warnings).
ValidateStyles(value, st) ==
  IF ~IsArray(value)
  THEN PushError(st, <<"\"styles\" must be an array.">>, <<"styles">>)
  ELSE StylesFrom(value, 1, [st |-> st, seen |-> {}])

\* The body of validateNofsData after the test of the root: the state
\* after every rule.
ValidateObject(obj) ==
  LET s0 == IF ObjectKeysThrows(obj)
            THEN Raise(NoIssues, "TypeError: Cannot convert undefined or null to object")
            ELSE UnknownKeysFrom(Keys(obj), 1, TOP_LEVEL_KEYS, "Unknown key \"", <<>>,
                                 NoIssues)
      s1 == RequireString(obj, "name", s0)
      s2 == RequireString(obj, "vendor", s1)
      s3 == RequireString(obj, "phoneset", s2)
      s4 == ValidateVersion(Prop(obj, "version"), s3)
      s5 == ValidateLanguage(Prop(obj, "language"), s4, <<"language">>)
      s6 == ValidateSupportLanguages(Prop(obj, "support_languages"), s5,
                                     <<"support_languages">>)
      s7 == ValidatePhoneset(Prop(obj, "language"), Prop(obj, "phoneset"), s6)
      s8 == ValidateModelId(Prop(obj, "sing_model"), ALLOWED_SING_MODEL, "sing_model", s7)
      s9 == ValidateModelId(Prop(obj, "base_model"), ALLOWED_BASE_MODEL, "base_model", s8)
      s10 == ValidateModelId(Prop(obj, "timing_model"), ALLOWED_TIMING_MODEL,
                             "timing_model", s9)
      s11 == ValidateModelId(Prop(obj, "f0_model"), ALLOWED_F0_MODEL, "f0_model", s10)
      s12 == ValidateStyles(Prop(obj, "styles"), s11)
      s13 == IF Prop(obj, "pitch").t = "undefined"
             THEN PushError(s12, <<"\"pitch\" is required.">>, <<"pitch">>)
             ELSE ValidateHex(Prop(obj, "pitch"), 256, s12, <<"pitch">>)
  IN  IF Prop(obj, "timing").t = "undefined"
      THEN PushError(s13, <<"\"timing\" is required.">>, <<"timing">>)
      ELSE ValidateHex(Prop(obj, "timing"), 1024, s13, <<"timing">>)

\* What a call returns or throws.
Completion(st) ==
  IF st.thrown # "" THEN Throw(st.thrown)
  ELSE Ok([errors |-> st.errors, warnings |-> st.warnings])

\* validateNofsData returning at the first error.
ValidateNofsDataFirstError(data) ==
  IF ~IsObject(data)
  THEN Ok([errors |-> <<[message |-> <<"Root value must be an object.">>,
                         severity |-> "error"]>>,
           warnings |-> <<>>])
  ELSE LET st == ValidateObject(data)
       IN  Completion([st EXCEPT !.errors = SubSeq(@, 1, Min(1, Len(@)))])

\* validateNofsData(data).
ValidateNofsData(data) ==
  IF ~IsObject(data)
  THEN Ok([errors |-> <<[message |-> <<"Root value must be an object.">>,
                         severity |-> "error"]>>,
           warnings |-> <<>>])
  ELSE Completion(ValidateObject(data))

\* The truth of a value in a condition (ToBoolean).
Truthy(v) ==
  CASE v.t \in {"undefined", "null"} -> FALSE
    [] v.t = "bool" -> v.b
    [] v.t = "str" -> v.s # <<>>
    [] v.t = "num" -> ~(v.n.k = "nan" \/ IsZero(v.n))
    [] OTHER -> TRUE

\* config.pitch ? config.pitch.toUpperCase() : undefined.
UpperOrUndefined(value) ==
  IF Truthy(value) THEN JStr(ToUpperCase(value.s)) ELSE Undefined

\* normalizeNofsConfig(config) of a VBConfig: the object literal spreads
\* config and then defines the six properties, so that a key of config
\* keeps its place and pitch and timing are own properties of the result
\* also when their value is undefined.
NormalizeNofsConfig(config) ==
  LET normalizedLanguage == ToLowerCase(Get(config, "language").s)
      expectedPhoneset == PHONESET_BY_LANGUAGE(normalizedLanguage)
      languages == Get(config, "support_languages").a
      styles == Get(config, "styles").a
      c1 == CreateDataProperty(config, "language", JStr(normalizedLanguage))
      c2 == CreateDataProperty(c1, "support_languages",
              JArr([i \in 1..Len(languages) |-> JStr(ToLowerCase(languages[i].s))]))
      c3 == CreateDataProperty(c2, "phoneset",
              IF expectedPhoneset # <<>> THEN JStr(expectedPhoneset)
              ELSE Prop(config, "phoneset"))
      c4 == CreateDataProperty(c3, "styles",
              JArr([i \in 1..Len(styles) |->
                     CreateDataProperty(styles[i], "data",
                       JStr(ToUpperCase(Get(styles[i], "data").s)))]))
      c5 == CreateDataProperty(c4, "pitch", UpperOrUndefined(Prop(config, "pitch")))
  IN  CreateDataProperty(c5, "timing", UpperOrUndefined(Prop(config, "timing")))

(***************************************************************************)
(* text.ts: the text of the editor before it is parsed.  A text is the     *)
(* sequence of tokens of the codec, with one more kind of token: a         *)
(* comment (a line comment or a block comment outside strings).            *)
(***************************************************************************)
TComment == [k |-> "comment"]

\* stripJsoncComments(input): the text without its comments.
StripJsoncComments(input) == SelectSeq(input, LAMBDA tok : tok.k # "comment")

RECURSIVE TrimStart(_)
TrimStart(text) ==
  IF text # <<>> /\ Head(text).k = "ws" THEN TrimStart(Tail(text)) ELSE text

RECURSIVE TrimEnd(_)
TrimEnd(text) ==
  IF text # <<>> /\ text[Len(text)].k = "ws"
  THEN TrimEnd(SubSeq(text, 1, Len(text) - 1))
  ELSE text

\* input.trim().
Trim(text) == TrimEnd(TrimStart(text))

RECURSIVE ExtractFrom(_, _, _, _)
\* The loop of extractJsonObject from position i on, depth braces deep in
\* the object that starts at start.
ExtractFrom(text, i, depth, start) ==
  IF i > Len(text) THEN text
  ELSE IF IsP(text[i], "{")
  THEN ExtractFrom(text, i + 1, depth + 1, IF depth = 0 THEN i ELSE start)
  ELSE IF IsP(text[i], "}") /\ depth > 0
  THEN IF depth = 1 THEN SubSeq(text, start, i)
       ELSE ExtractFrom(text, i + 1, depth - 1, start)
  ELSE ExtractFrom(text, i + 1, depth, start)

\* extractJsonObject(input): the first object of the text from its brace
\* to the matching one, or the trimmed text when there is none.
ExtractJsonObject(input) == ExtractFrom(Trim(input), 1, 0, 0)

\* prepareNofsJsonText(input).
PrepareNofsJsonText(input) == ExtractJsonObject(StripJsoncComments(input))

\* parseNofsMeta(input).  writeFile calls it after encryptJsonToNofs has
\* accepted the same prepared text, where the parser of jsonc-parser
\* reads what JSON.parse reads.
ParseNofsMeta(input) ==
  LET parsed == JsonParse(PrepareNofsJsonText(input))
  IN  IF ~parsed.ok \/ ~Truthy(parsed.v) \/ parsed.v.t # "obj"
      THEN [name |-> Undefined, version |-> Undefined]
      ELSE [name |-> IF Prop(parsed.v, "name").t = "str"
                     THEN Prop(parsed.v, "name") ELSE Undefined,
            version |-> IF Prop(parsed.v, "version").t = "str"
                        THEN Prop(parsed.v, "version") ELSE Undefined]

(***************************************************************************)
(* backup.ts: maybeBackupNofsFile.  The file system is a record: files,    *)
(* the regular files outside the backup directory as [path, data]; dirs,   *)
(* the directories created; backups, the entries of the backup directory   *)
(* as [name, isFile, mtime, data, madeFor], where madeFor records the      *)
(* name and version the backup was made for; tick, the time the next file  *)
(* written gets as its mtime.                                              *)
(***************************************************************************)
BackupDir == [k |-> "backupdir"]
BackupPath(fileName) == [k |-> "backup", file |-> fileName]

\* fs.existsSync(path) of a file outside the backup directory.
FsExists(d, path) == \E f \in d.files : f.path = path

\* The bytes of the file.
FsRead(d, path) == (CHOOSE f \in d.files : f.path = path).data

\* writeFile(path, data): the file is created or replaced.
FsWrite(d, path, data) ==
  [d EXCEPT !.files = {f \in @ : f.path # path} \cup {[path |-> path, data |-> data]},
            !.tick = @ + 1]

IsSpaceChar(c) == c \in {" ", "\t", "\n", "\r"}
IsReservedChar(c) == c \in {"<", ">", ":", "\"", "/", "\\", "|", "?", "*"}

RECURSIVE CollapseSpaces(_, _)
\* value.replace(/\s+/g, "_") from position i on.
CollapseSpaces(value, i) ==
  IF i > Len(value) THEN <<>>
  ELSE IF IsSpaceChar(value[i])
  THEN (IF i > 1 /\ IsSpaceChar(value[i - 1]) THEN <<>> ELSE <<"_">>)
         \o CollapseSpaces(value, i + 1)
  ELSE <<value[i]>> \o CollapseSpaces(value, i + 1)

\* sanitizeBackupName(value); after the two replacements no white space
\* is left for trim() to remove.
SanitizeBackupName(value) ==
  LET collapsed == CollapseSpaces(value, 1)
      replaced == [i \in 1..Len(collapsed) |->
                    IF IsReservedChar(collapsed[i]) THEN "_" ELSE collapsed[i]]
  IN  IF replaced = <<>> THEN <<"i", "t", "e", "m">> ELSE replaced

RECURSIVE DecText(_)
\* value.toString() of a natural number.
DecText(n) ==
  IF n < 10 THEN <<HexUpper[n + 1]>>
  ELSE DecText(n \div 10) \o <<HexUpper[(n % 10) + 1]>>

\* value.toString().padStart(2, "0").
Pad2(n) == IF n < 10 THEN <<"0">> \o DecText(n) ELSE DecText(n)

\* formatTimestamp(date), of a date given by its local fields (month
\* counted from 0 as getMonth gives it).
FormatTimestamp(date) ==
  DecText(date.year) \o Pad2(date.month + 1) \o Pad2(date.date) \o <<"-">>
    \o Pad2(date.hours) \o Pad2(date.minutes) \o Pad2(date.seconds)

\* clamp(value, min, max) of a setting [finite, n]: an integer n, or a
\* value that is not finite.
Clamp(value, min, max) ==
  IF ~value.finite THEN min
  ELSE IF value.n < min THEN min
  ELSE IF value.n > max THEN max
  ELSE value.n

StartsWith(text, prefix) ==
  Len(text) >= Len(prefix) /\ SubSeq(text, 1, Len(prefix)) = prefix

EndsWith(text, suffix) ==
  Len(text) >= Len(suffix)
    /\ SubSeq(text, Len(text) - Len(suffix) + 1, Len(text)) = suffix

DotNofs == <<".", "n", "o", "f", "s">>

\* The entries pruneBackups takes for the backups of name and version.
BackupsOf(entries, name, version) ==
  LET prefix == name \o <<"-">> \o version \o <<"-">>
  IN  {e \in entries : e.isFile /\ StartsWith(e.name, prefix) /\ EndsWith(e.name, DotNofs)}

\* The entries pruneBackups unlinks: the stats sorted by mtime without
\* the last maxCount of them (the files of the model have distinct
\* mtimes).
ToDelete(entries, name, version, maxCount) ==
  LET backups == BackupsOf(entries, name, version)
      excess == Cardinality(backups) - maxCount
  IN  IF Cardinality(backups) <= maxCount THEN {}
      ELSE {e \in backups : Cardinality({f \in backups : f.mtime < e.mtime}) < excess}

\* pruneBackups(dir, name, version, maxCount): the file system and the
\* log after it.
PruneBackups(d, log, name, version, maxCount) ==
  LET gone == ToDelete(d.backups, name, version, maxCount)
  IN  IF gone = {} THEN [disk |-> d, log |-> log]
      ELSE [disk |-> [d EXCEPT !.backups = @ \ gone],
            log |-> Append(log, [op |-> "unlink", files |-> {e.name : e \in gone}])]

\* maybeBackupNofsFile(targetPath, meta, options) called at the time now.
MaybeBackupNofsFile(d, log, targetPath, meta, options, now) ==
  IF ~options.enabled THEN [disk |-> d, log |-> log]
  ELSE IF ~Truthy(meta.name) \/ ~Truthy(meta.version) THEN [disk |-> d, log |-> log]
  ELSE
    LET safeName == SanitizeBackupName(meta.name.s)
        version == SanitizeBackupName(meta.version.s)
        timestamp == FormatTimestamp(now)
        maxCount == Clamp(options.maxCount, 1, 10)
        d1 == [d EXCEPT !.dirs = @ \cup {BackupDir}]
        log1 == Append(log, [op |-> "mkdir", path |-> BackupDir])
    IN  IF ~FsExists(d, targetPath) THEN [disk |-> d1, log |-> log1]
        ELSE
          LET backupName == safeName \o <<"-">> \o version \o <<"-">> \o timestamp
                              \o DotNofs
              copy == [name |-> backupName, isFile |-> TRUE, mtime |-> d.tick,
                       data |-> FsRead(d, targetPath),
                       madeFor |-> <<meta.name.s, meta.version.s>>]
              d2 == [d1 EXCEPT !.backups = {e \in @ : e.name # backupName} \cup {copy},
                               !.tick = @ + 1]
              log2 == Append(log1, [op |-> "copyFile", from |-> targetPath,
                                    path |-> BackupPath(backupName)])
          IN  PruneBackups(d2, log2, safeName, version, maxCount)

(***************************************************************************)
(* NofsJsonFileSystemProvider.writeFile.                                   *)
(***************************************************************************)
OriginalPath == [k |-> "original"]
ProjectDir(name) == [k |-> "projectdir", name |-> name]
ProjectPath(name, version) == [k |-> "project", name |-> name, version |-> version]
JsoncPath(target) == [k |-> "jsonc", of |-> target]

\* resolveSaveTarget(original, meta, settings) with the workspace root
\* present or not: the target and the directory it made, or the error.
ResolveSaveTarget(meta, settings, hasRoot) ==
  IF ~settings.saveToProjectRoot THEN Ok([target |-> OriginalPath, made |-> {}])
  ELSE IF ~Truthy(meta.name) \/ ~Truthy(meta.version)
  THEN Throw("Missing name or version for project-root saving.")
  ELSE IF ~hasRoot THEN Throw("Open a workspace folder to use project root saving.")
  ELSE Ok([target |-> ProjectPath(meta.name.s, meta.version.s),
           made |-> {ProjectDir(meta.name.s)}])

\* writeFile going on after encryptJsonToNofs threw.
AfterEncryptIgnoringError(encrypted) == "save_encrypted"

\* The position after encryptJsonToNofs returned or threw.
AfterEncrypt(encrypted) == IF encrypted.ok THEN "save_encrypted" ELSE "save_failed"

(***************************************************************************)
(* Inputs of the FieldMigrator scenarios.                                  *)
(***************************************************************************)
MaxStyles == 2
MaxDepth == 2

IdAbc == JStr(<<"a", "b", "c", "1", "2", "3">>)
IdXy == JStr(<<"x", "y">>)
Half == Fin(0, 1, -1)
Hex8HalfUpper == <<"0", "0", "0", "0", "0", "0", "3", "F">>
Hex8HalfLower == <<"0", "0", "0", "0", "0", "0", "3", "f">>
Hex8NaN == <<"0", "0", "0", "0", "C", "0", "7", "F">>
Hex8Inf == <<"0", "0", "0", "0", "8", "0", "7", "F">>
Hex8NegZero == <<"0", "0", "0", "0", "0", "0", "8", "0">>

SingOnly == JObj(<< <<"sing_model", IdAbc>> >>)
PitchOnly == JObj(<< <<"pitch_model", IdAbc>> >>)
SingAndPitch == JObj(<< <<"sing_model", IdAbc>>, <<"pitch_model", IdXy>> >>)

\* The model-id members of an object, in the order written.
ModelMembers ==
  { <<>>,
    << <<"sing_model", IdAbc>> >>,
    << <<"pitch_model", IdAbc>> >>,
    << <<"sing_model", IdAbc>>, <<"pitch_model", IdXy>> >>,
    << <<"pitch_model", IdXy>>, <<"sing_model", IdAbc>> >>,
    << <<"sing_model", SingOnly>> >> }

\* Values of a style's extra: numbers float32 holds exactly (0.5, -0) or
\* not (2^24 + 1), 8-hex strings in either case and of special values,
\* strings that are no 8-hex, and values of other types.
ExtraValues ==
  { JNum(Half), JNum(Fin(1, 0, 0)), JNum(Fin(0, 16777217, 0)),
    JStr(Hex8HalfUpper), JStr(Hex8HalfLower), JStr(Hex8NaN), JStr(Hex8Inf),
    JStr(Hex8NegZero), JStr(SubSeq(Hex8HalfUpper, 1, 7)),
    JStr(<<"0", "0", "0", "0", "0", "0", "3", "G">>),
    JNull, JBool(TRUE), SingOnly, PitchOnly, JArr(<<SingOnly>>),
    JObj(<< <<"styles", JArr(<< JObj(<< <<"extra", JStr(Hex8HalfUpper)>> >>) >>)>> >>) }

StyleOf(extra) ==
  JObj(<< <<"name", JStr(<<"S">>)>>, <<"extra", extra>> >>)

\* Entries every styles array of the model may repeat.
CoreStyleEntries ==
  { StyleOf(JNum(Half)), StyleOf(JStr(Hex8HalfUpper)), JObj(<< <<"name", JStr(<<"S">>)>> >>) }

\* Entries that appear alone: every extra, entries that are no objects,
\* and a style holding a model id.
StyleEntries ==
  {StyleOf(x) : x \in ExtraValues}
  \cup { JNum(Half), JStr(Hex8HalfUpper), JNull, JArr(<<SingOnly>>),
         JObj(<< <<"name", JStr(<<"S">>)>>, <<"sing_model", IdAbc>> >>),
         JObj(<< <<"pitch_model", IdAbc>>, <<"extra", JNum(Half)>> >>) }

StylesMembers ==
  { <<>>,
    << <<"styles", JStr(<<"S">>)>> >>,
    << <<"styles", StyleOf(JNum(Half))>> >>,
    << <<"styles", StyleOf(JStr(Hex8HalfUpper))>> >> }
  \cup { << <<"styles", JArr(<<x>>)>> >> : x \in StyleEntries }
  \cup { << <<"styles", JArr(s)>> >> :
           s \in UNION {[1..n -> CoreStyleEntries] : n \in ((0..MaxStyles) \ {1})} }

RECURSIVE Nest(_, _)
\* x wrapped in k levels, objects and arrays alternating.
Nest(x, k) ==
  IF k = 0 THEN x
  ELSE IF k % 2 = 1 THEN JObj(<< <<"inner", Nest(x, k - 1)>> >>)
  ELSE JArr(<<JNull, Nest(x, k - 1)>>)

NestedMembers ==
  { <<>> }
  \cup { << <<"nested", Nest(x, k)>> >> :
           x \in {SingOnly, PitchOnly, SingAndPitch}, k \in 0..(MaxDepth - 1) }

MigDocs ==
  { JObj(<< <<"name", JStr(<<"T">>)>> >> \o m \o s \o n) :
      m \in ModelMembers, s \in StylesMembers, n \in NestedMembers }
  \cup { JArr(<<SingOnly, PitchOnly>>), JStr(Hex8HalfUpper), JNum(Half), JNull,
         JBool(FALSE), JArr(<<>>), JObj(<<>>) }
  \cup { JObj(<< <<"name", JStr(<<"T">>)>>, <<"__proto__", x>> >>) :
           x \in {JStr(<<"S">>), JNull, JObj(<< <<"name", JStr(<<"S">>)>> >>)} }
  \cup { JObj(<< <<"styles", JArr(<< JObj(<< <<"__proto__", JNum(Half)>> >>) >>)>> >>) }

(***************************************************************************)
(* FieldMigrator scenarios: each transform on doc, and each followed by    *)
(* the other.                                                              *)
(***************************************************************************)
IdleMig ==
  /\ doc = None /\ legacy = None /\ modern = None /\ backL = None /\ backM = None
IdleBin ==
  /\ jsonText = None /\ nofs = None /\ sealed = None /\ encRes = None
  /\ decRes = None /\ tamper = None
IdleVec ==
  /\ vecIn = None /\ hexIn = None /\ hexRes = None /\ vecRes = None
IdleMix ==
  /\ mixIn = None /\ mixRes = None
IdleMag ==
  /\ magIn = None /\ magRes = None
IdleVal ==
  /\ valDoc = None /\ valRes = None
IdleNorm ==
  /\ normCfg = None /\ normOnce = None /\ normTwice = None /\ normVal = None
IdleCore ==
  /\ IdleMig /\ IdleBin /\ IdleVec /\ IdleMix /\ IdleMag /\ IdleVal
IdleSave ==
  /\ saveIn = None /\ saveLoc = None /\ disk = None /\ fsLog = None
IdleSess ==
  /\ memento = None /\ wvState = None /\ toExt = None /\ toView = None
  /\ tabOp = None /\ addLoc = None
IdleOut ==
  /\ outTab = None /\ outRes = None
IdleFix ==
  /\ fixDoc = None /\ fixCache = None /\ fixTimers = None /\ fixMark = None
  /\ fixEdits = None /\ fixLog = None
IdleUi ==
  /\ IdleSess /\ IdleOut /\ IdleFix
IdleExt ==
  /\ IdleNorm /\ IdleSave /\ IdleUi

InitMig ==
  /\ pc = "mig"
  /\ doc \in MigDocs
  /\ legacy = None /\ modern = None /\ backL = None /\ backM = None
  /\ IdleBin /\ IdleVec /\ IdleMix /\ IdleMag /\ IdleVal /\ IdleExt

ToLegacy ==
  /\ pc = "mig"
  /\ legacy' = TransformValueForEncrypt(doc)
  /\ pc' = "legacy"
  /\ UNCHANGED <<doc, modern, backL, backM, binVars, vecVars, mixVars, magVars, valVars, extVars>>

ToModernOfLegacy ==
  /\ pc = "legacy"
  /\ backL' = TransformValueForDecrypt(legacy)
  /\ pc' = "legacy_back"
  /\ UNCHANGED <<doc, legacy, modern, backM, binVars, vecVars, mixVars, magVars, valVars, extVars>>

ToModern ==
  /\ pc = "mig"
  /\ modern' = TransformValueForDecrypt(doc)
  /\ pc' = "modern"
  /\ UNCHANGED <<doc, legacy, backL, backM, binVars, vecVars, mixVars, magVars, valVars, extVars>>

ToLegacyOfModern ==
  /\ pc = "modern"
  /\ backM' = TransformValueForEncrypt(modern)
  /\ pc' = "modern_back"
  /\ UNCHANGED <<doc, legacy, modern, backL, binVars, vecVars, mixVars, magVars, valVars, extVars>>

NextMig == ToLegacy \/ ToModernOfLegacy \/ ToModern \/ ToLegacyOfModern

SpecMig == InitMig /\ [][NextMig]_vars

(***************************************************************************)
(* Vocabulary of the FieldMigrator claims.                                 *)
(***************************************************************************)
HexCharSet ==
  { "0", "1", "2", "3", "4", "5", "6", "7", "8", "9",
    "a", "b", "c", "d", "e", "f", "A", "B", "C", "D", "E", "F" }
UpperHexCharSet ==
  { "0", "1", "2", "3", "4", "5", "6", "7", "8", "9", "A", "B", "C", "D", "E", "F" }

IsHexText(s, n) == Len(s) = n /\ \A i \in 1..Len(s) : s[i] \in HexCharSet
IsUpperHexText(s, n) == Len(s) = n /\ \A i \in 1..Len(s) : s[i] \in UpperHexCharSet

\* x is a finite double that float32 holds exactly.
IsFloat32Value(x) ==
  /\ x.k = "fin"
  /\ x.m = 0 \/ (BitLen(x.m) <= 24 /\ x.e >= -149 /\ x.e + BitLen(x.m) - 1 <= 127)

RECURSIVE HasKeyAnywhere(_, _)
\* Some object of v, at any depth, has the key.
HasKeyAnywhere(v, key) ==
  CASE v.t = "arr" -> \E i \in 1..Len(v.a) : HasKeyAnywhere(v.a[i], key)
    [] v.t = "obj" ->
         HasOwn(v, key) \/ \E i \in 1..Len(v.o) : HasKeyAnywhere(v.o[i][2], key)
    [] OTHER -> FALSE

RECURSIVE HasBothAnywhere(_)
\* Some object of v holds both sing_model and pitch_model.
HasBothAnywhere(v) ==
  CASE v.t = "arr" -> \E i \in 1..Len(v.a) : HasBothAnywhere(v.a[i])
    [] v.t = "obj" ->
         \/ HasOwn(v, "sing_model") /\ HasOwn(v, "pitch_model")
         \/ \E i \in 1..Len(v.o) : HasBothAnywhere(v.o[i][2])
    [] OTHER -> FALSE

RECURSIVE StyleExtras(_)
\* The extra values of the style objects of v: the object elements of an
\* array held under a key styles, at any depth.
StyleExtras(v) ==
  CASE v.t = "arr" -> UNION {StyleExtras(v.a[i]) : i \in 1..Len(v.a)}
    [] v.t = "obj" ->
         UNION { StyleExtras(v.o[i][2])
                 \cup (IF v.o[i][1] = "styles" /\ v.o[i][2].t = "arr"
                       THEN { Get(e, "extra") :
                                e \in { x \in Range(v.o[i][2].a) :
                                          x.t = "obj" /\ HasOwn(x, "extra") } }
                       ELSE {})
                 : i \in 1..Len(v.o) }
    [] OTHER -> {}

IsHex8Extra(x) == x.t = "str" /\ IsHexText(x.s, 8)

NoProtoKey(d) == ~HasKeyAnywhere(d, "__proto__")

\* A document in modern form: no pitch_model and no __proto__ key
\* anywhere, and every style extra either no number and no 8-hex string,
\* or a float32 value.
ModernForm(d) ==
  /\ ~HasKeyAnywhere(d, "pitch_model")
  /\ NoProtoKey(d)
  /\ \A x \in StyleExtras(d) :
       /\ ~IsHex8Extra(x)
       /\ (x.t = "num" /\ x.n.k = "fin") => IsFloat32Value(x.n)

\* A document in legacy form: no sing_model and no __proto__ key anywhere;
\* every style extra is
\* either an upper-case 8-hex string of a finite float32, or no number and
\* no 8-hex string and then holds neither a pitch_model key nor an 8-hex
\* style extra of its own (toLegacy does not descend into an extra).
LegacyForm(d) ==
  /\ ~HasKeyAnywhere(d, "sing_model")
  /\ NoProtoKey(d)
  /\ \A x \in StyleExtras(d) :
       /\ ~(x.t = "num" /\ x.n.k = "fin")
       /\ IsHex8Extra(x) =>
            /\ IsUpperHexText(x.s, 8)
            /\ F32Exp(HexToBytes(x.s)) # 255
       /\ ~HasKeyAnywhere(x, "pitch_model")
       /\ \A y \in StyleExtras(x) : ~IsHex8Extra(y)

RECURSIVE WellFormed(_)
\* v is a JSON tree.
WellFormed(v) ==
  CASE v.t = "null" -> TRUE
    [] v.t = "bool" -> v.b \in BOOLEAN
    [] v.t = "num" -> v.n.k \in {"fin", "inf", "nan"}
    [] v.t = "str" -> \A i \in 1..Len(v.s) : v.s[i] \in STRING
    [] v.t = "arr" -> \A i \in 1..Len(v.a) : WellFormed(v.a[i])
    [] v.t = "obj" ->
         /\ \A i \in 1..Len(v.o) : v.o[i][1] \in STRING /\ WellFormed(v.o[i][2])
         /\ \A i, j \in 1..Len(v.o) : v.o[i][1] = v.o[j][1] => i = j
    [] OTHER -> FALSE

\* No rule of toLegacy applies anywhere in v: no sing_model key, and no
\* style extra that is a finite number or an 8-hex string with a
\* lower-case letter.
NoLegacyRule(v) ==
  /\ ~HasKeyAnywhere(v, "sing_model")
  /\ \A x \in StyleExtras(v) :
       /\ ~(x.t = "num" /\ x.n.k = "fin")
       /\ IsHex8Extra(x) => IsUpperHexText(x.s, 8)

\* No rule of toModern applies anywhere in v.
NoModernRule(v) ==
  /\ ~HasKeyAnywhere(v, "pitch_model")
  /\ \A x \in StyleExtras(v) : ~IsHex8Extra(x)

(***************************************************************************)
(* C5 (original statement): toLegacy and toModern are mutually inverse on  *)
(* every document in which no object holds both sing_model and             *)
(* pitch_model (stated for the documents without a member named            *)
(* __proto__, whose loss is the matter of C7).                             *)
(***************************************************************************)
C5_InverseWheneverNotBoth ==
  /\ (pc = "legacy_back" /\ ~HasBothAnywhere(doc) /\ NoProtoKey(doc))
       => backL = doc
  /\ (pc = "modern_back" /\ ~HasBothAnywhere(doc) /\ NoProtoKey(doc))
       => backM = doc

(***************************************************************************)
(* C5 (amended): toModern(toLegacy(d)) = d for every document d in modern  *)
(* form, and toLegacy(toModern(d)) = d for every document d in legacy      *)
(* form.                                                                   *)
(***************************************************************************)
C5_InverseOnMigratedForms ==
  /\ (pc = "legacy_back" /\ ModernForm(doc)) => backL = doc
  /\ (pc = "modern_back" /\ LegacyForm(doc)) => backM = doc

C5_Witness ==
  /\ pc = "legacy_back"
  /\ ModernForm(doc)
  /\ HasKeyAnywhere(doc, "sing_model")
  /\ \E x \in StyleExtras(doc) : x.t = "num"
  /\ legacy # doc
  /\ backL = doc

(***************************************************************************)
(* C6: after toLegacy no object of the document, at any depth, still has   *)
(* a sing_model key; at the root, sing_model without pitch_model becomes   *)
(* pitch_model with the same value, and with both present pitch_model      *)
(* keeps its value.                                                        *)
(***************************************************************************)
C6_RenamedInEveryObject ==
  pc = "legacy" =>
    /\ ~HasKeyAnywhere(legacy, "sing_model")
    /\ (doc.t = "obj" /\ HasOwn(doc, "sing_model") /\ ~HasOwn(doc, "pitch_model")
        /\ Get(doc, "sing_model").t = "str")
         => (HasOwn(legacy, "pitch_model")
             /\ Get(legacy, "pitch_model") = Get(doc, "sing_model"))
    /\ (doc.t = "obj" /\ HasOwn(doc, "sing_model") /\ HasOwn(doc, "pitch_model"))
         => Get(legacy, "pitch_model") = Get(doc, "pitch_model")

(***************************************************************************)
(* C7: both transforms return a JSON tree for every JSON tree, a document  *)
(* to which no rule applies comes back unchanged, and so does every        *)
(* member of the root object to which no rule applies.                     *)
(***************************************************************************)
C7_TotalAndPassThrough ==
  /\ pc = "legacy" =>
       /\ WellFormed(legacy)
       /\ NoLegacyRule(doc) => legacy = doc
       /\ doc.t = "obj" =>
            \A i \in 1..Len(doc.o) :
              (doc.o[i][1] # "sing_model" /\ NoLegacyRule(JObj(<<doc.o[i]>>)))
                => (HasOwn(legacy, doc.o[i][1])
                    /\ Get(legacy, doc.o[i][1]) = doc.o[i][2])
  /\ pc = "modern" =>
       /\ WellFormed(modern)
       /\ NoModernRule(doc) => modern = doc
       /\ doc.t = "obj" =>
            \A i \in 1..Len(doc.o) :
              (doc.o[i][1] # "pitch_model" /\ NoModernRule(JObj(<<doc.o[i]>>)))
                => (HasOwn(modern, doc.o[i][1])
                    /\ Get(modern, doc.o[i][1]) = doc.o[i][2])

(***************************************************************************)
(* Inputs of the BinaryCodec scenarios.                                    *)
(***************************************************************************)
NumIVs == 2

\* crypto.randomBytes(16): the IVs the model draws.
IVs == {Repeat(17 * b, IvLen) : b \in 1..NumIVs}

BinStylesMembers ==
  { <<>>,
    << <<"styles", JStr(<<"S">>)>> >>,
    << <<"styles", JArr(<<StyleOf(JNum(Fin(0, 16777217, 0)))>>)>> >>,
    << <<"styles", JArr(<<StyleOf(JStr(Hex8HalfLower))>>)>> >>,
    << <<"styles", JArr(<<StyleOf(JStr(Hex8NaN))>>)>> >>,
    << <<"styles", JArr(<<StyleOf(JNull)>>)>> >>,
    << <<"styles", JArr(<<StyleOf(JNum(Fin(1, 5, -1)))>>)>> >> }
  \cup { << <<"styles", JArr(s)>> >> :
           s \in UNION {[1..n -> CoreStyleEntries] : n \in 0..MaxStyles} }

BinDocs ==
  { JObj(<< <<"name", JStr(<<"T", "e", "s", "t">>)>> >> \o m \o s \o n) :
      m \in { <<>>,
              << <<"sing_model", IdAbc>> >>,
              << <<"pitch_model", IdAbc>> >>,
              << <<"sing_model", IdAbc>>, <<"pitch_model", IdXy>> >> },
      s \in BinStylesMembers,
      n \in { <<>>, << <<"nested", PitchOnly>> >> } }
  \cup { JObj(<< <<"sing_model", IdAbc>>, <<"__proto__", x>> >>) :
           x \in {JStr(<<"S">>), JObj(<< <<"name", JStr(<<"S">>)>> >>)} }

\* text with a space after every punctuation mark.
Spaced(text) ==
  Flatten([i \in 1..Len(text) |->
            IF text[i].k = "p" THEN <<text[i], Ws>> ELSE <<text[i]>>])

\* The texts handed to encrypt: each document as JSON.stringify writes it
\* and with white space, and texts that are no JSON.
BinTexts ==
  {JsonStringify(d) : d \in BinDocs}
  \cup {Spaced(JsonStringify(d)) : d \in BinDocs}
  \cup { <<>>, <<P("{")>>, <<P("{"), TStr("name"), P("}")>>,
         <<TLit("null"), TLit("null")>>,
         <<P("["), TNum(Half), P(","), P("]")>> }

(***************************************************************************)
(* BinaryCodec scenarios: encrypt a text, possibly alter the container,    *)
(* decrypt it.                                                             *)
(***************************************************************************)
InitBin ==
  /\ pc = "bin"
  /\ jsonText \in BinTexts
  /\ nofs = None /\ sealed = None /\ encRes = None /\ decRes = None
  /\ tamper = None
  /\ IdleMig /\ IdleVec /\ IdleMix /\ IdleMag /\ IdleVal /\ IdleExt

Encrypt ==
  /\ pc = "bin"
  /\ \E iv \in IVs :
       LET r == EncryptJsonToNofs(jsonText, iv)
           pt == TransformJsonForEncrypt(jsonText)
       IN  /\ encRes' = IF r.ok THEN [ok |-> TRUE] ELSE r
           /\ nofs' = IF r.ok THEN r.v ELSE None
           /\ sealed' = IF r.ok
                        THEN [iv |-> iv, pt |-> pt.v, ct |-> AesCbcEncrypt(iv, pt.v)]
                        ELSE None
           /\ pc' = IF r.ok THEN "encrypted" ELSE "enc_failed"
  /\ UNCHANGED <<jsonText, decRes, tamper, migVars, vecVars, mixVars, magVars, valVars, extVars>>

MinSize == HEADER_SIZE + 4 + 16 + 4

\* The file is cut short: below the minimum size, or by bytes of the
\* ciphertext and trailer.
Truncate ==
  /\ pc = "encrypted"
  /\ \E n \in {0, HEADER_SIZE, MinSize - 1, MinSize, Len(nofs) - 16, Len(nofs) - 1} :
       /\ nofs' = SubSeq(nofs, 1, n)
       /\ tamper' = [kind |-> IF n < MinSize THEN "size" ELSE "cut"]
  /\ pc' = "tampered"
  /\ UNCHANGED <<jsonText, sealed, encRes, decRes, migVars, vecVars, mixVars, magVars, valVars, extVars>>

CorruptMagic ==
  /\ pc = "encrypted"
  /\ \E i \in 1..4, b \in {0, 115, 255} :
       /\ nofs' = [nofs EXCEPT ![HEADER_SIZE + i] = b]
       /\ tamper' = [kind |-> "magic"]
  /\ pc' = "tampered"
  /\ UNCHANGED <<jsonText, sealed, encRes, decRes, migVars, vecVars, mixVars, magVars, valVars, extVars>>

\* One of the three length fields is overwritten with another value.
TamperLength ==
  /\ pc = "encrypted"
  /\ \E kind \in {"svdb", "total", "trailer"}, delta \in {-20, -1, 1, 16, 20} :
       LET off == CASE kind = "svdb" -> OffSvdb
                    [] kind = "total" -> OffTotal
                    [] kind = "trailer" -> Len(nofs) - 4
       IN  /\ nofs' = WriteUInt32LE(nofs, ReadUInt32LE(nofs, off) + delta, off)
           /\ tamper' = [kind |-> kind]
  /\ pc' = "tampered"
  /\ UNCHANGED <<jsonText, sealed, encRes, decRes, migVars, vecVars, mixVars, magVars, valVars, extVars>>

Decrypt ==
  /\ pc \in {"encrypted", "tampered"}
  /\ decRes' = DecryptNofsToJson(nofs)
  /\ pc' = "decrypted"
  /\ UNCHANGED <<jsonText, nofs, sealed, encRes, tamper, migVars, vecVars, mixVars, magVars, valVars, extVars>>

NextBin == Encrypt \/ Truncate \/ CorruptMagic \/ TamperLength \/ Decrypt

SpecBin == InitBin /\ [][NextBin]_vars

(***************************************************************************)
(* BinaryCodec properties.                                                 *)
(***************************************************************************)
\* The document a text denotes.
DocOf(text) == JsonParse(text).v

IsJsonText(text) == JsonParse(text).ok

Untouched == tamper = None

HasSingOnly(d) ==
  /\ IsPlainObject(d)
  /\ HasOwn(d, "sing_model")
  /\ ~HasKeyAnywhere(d, "pitch_model")

\* The payload sealed in the container names the model the legacy way.
PayloadIsLegacy ==
  LET payload == DocOf(sealed.pt)
  IN  /\ HasOwn(payload, "pitch_model")
      /\ ~HasOwn(payload, "sing_model")
      /\ Get(payload, "pitch_model") = Get(DocOf(jsonText), "sing_model")

\* C1 as stated: decrypt(encrypt(j)) is the document j, for every JSON
\* document j with sing_model and no pitch_model, and the encrypted payload
\* carries pitch_model and no sing_model (stated for the documents
\* without a member named __proto__, whose loss is the matter of C7).
C1_RoundTripAnyDocument ==
  (pc = "decrypted" /\ Untouched /\ IsJsonText(jsonText)
     /\ HasSingOnly(DocOf(jsonText)) /\ NoProtoKey(DocOf(jsonText)))
  => /\ decRes.ok
     /\ DocOf(decRes.v) = DocOf(jsonText)
     /\ PayloadIsLegacy

\* C1, amended: for a JSON document j with sing_model, no pitch_model
\* anywhere, and whose numeric style extras are float32 values and whose
\* string style extras are no 8-digit hex strings, decrypt(encrypt(j)) is
\* the compact serialization of j, so it denotes the document j; the
\* encrypted payload carries pitch_model and no sing_model.
C1_RoundTripModernForm ==
  (pc = "decrypted" /\ Untouched /\ IsJsonText(jsonText)
     /\ HasSingOnly(DocOf(jsonText)) /\ ModernForm(DocOf(jsonText)))
  => /\ decRes = Ok(JsonStringify(DocOf(jsonText)))
     /\ DocOf(decRes.v) = DocOf(jsonText)
     /\ PayloadIsLegacy

C1_Witness ==
  /\ pc = "decrypted" /\ Untouched /\ IsJsonText(jsonText)
  /\ HasSingOnly(DocOf(jsonText)) /\ ModernForm(DocOf(jsonText))
  /\ \E y \in StyleExtras(DocOf(jsonText)) : IsNumber(y)
  /\ decRes.ok /\ decRes.v # jsonText

\* The little-endian 32-bit unsigned integer at a byte offset.
LE32At(buf, off) ==
  buf[off + 1] + 256 * buf[off + 2] + 65536 * buf[off + 3]
    + 16777216 * buf[off + 4]

\* The ciphertext length N of a container of the layout
\* header(192) magic(4) iv(16) ciphertext(N) trailer(4).
CipherLen(buf) == Len(buf) - 216

\* C2: every file encrypt produces has "SVDB" at offset 192, the value
\* 20 + N at 0xBC, that value + 20 at 0xB0, and the value of 0xB0 again in
\* the last four bytes, N being the ciphertext length.
C2_LayoutOfEncrypt ==
  (pc = "encrypted")
  => /\ Len(nofs) >= 216 + 16
     /\ SubSeq(nofs, 193, 196) = <<83, 86, 68, 66>>
     /\ LE32At(nofs, 188) = 20 + CipherLen(nofs)
     /\ LE32At(nofs, 176) = LE32At(nofs, 188) + 20
     /\ LE32At(nofs, Len(nofs) - 4) = LE32At(nofs, 176)

C2_Witness ==
  /\ pc = "encrypted"
  /\ CipherLen(nofs) > 16
  /\ LE32At(nofs, 188) = 20 + CipherLen(nofs)

\* The kind of failure a message of decrypt stands for.
ErrorKind(msg) ==
  CASE msg = "Invalid NOFS file size." -> "FormatError"
    [] msg \in {"Missing SVDB header.", "NOFS length fields mismatch."}
         -> "IntegrityError"
    [] OTHER -> "Error"

Fails(res, msg) == res = Throw(msg)

\* C3: decrypt of a file truncated below the minimum size fails with a
\* format error, of a file whose magic is corrupted or whose trailer is
\* altered with an integrity error, and in none of these cases returns
\* JSON.
C3_TamperedFileRejected ==
  (pc = "decrypted" /\ tamper # None)
  => /\ tamper.kind = "size" =>
          /\ Fails(decRes, "Invalid NOFS file size.")
          /\ ErrorKind(decRes.error) = "FormatError"
     /\ tamper.kind = "magic" =>
          /\ Fails(decRes, "Missing SVDB header.")
          /\ ErrorKind(decRes.error) = "IntegrityError"
     /\ tamper.kind = "trailer" =>
          /\ Fails(decRes, "NOFS length fields mismatch.")
          /\ ErrorKind(decRes.error) = "IntegrityError"
     /\ tamper.kind \in {"size", "magic", "trailer"} => ~decRes.ok

C3_Witness ==
  /\ pc = "decrypted" /\ tamper # None /\ tamper.kind = "trailer"
  /\ ~decRes.ok /\ Len(nofs) > 216 + 16

LengthFields == {"svdb", "total", "trailer"}

FieldOffset(buf, kind) ==
  CASE kind = "svdb" -> 188
    [] kind = "total" -> 176
    [] kind = "trailer" -> Len(buf) - 4

\* The container with its three length fields as the layout demands.
Restored(buf) ==
  LET n == 20 + CipherLen(buf)
  IN  WriteUInt32LE(WriteUInt32LE(WriteUInt32LE(buf, n, 188), n + 20, 176),
                    n + 20, Len(buf) - 4)

\* The well-formed container with one length field off by one.
BrokenIn(buf, kind) ==
  LET off == FieldOffset(buf, kind)
      good == Restored(buf)
  IN  WriteUInt32LE(good, LE32At(good, off) + 1, off)

\* C4 as stated: the three length checks are independent and the error
\* names the check that failed, so files failing different checks fail
\* with different errors.
C4_ErrorNamesFailedCheck ==
  (pc = "decrypted" /\ tamper # None /\ tamper.kind \in LengthFields)
  => /\ ~decRes.ok
     /\ \A other \in LengthFields \ {tamper.kind} :
          DecryptNofsToJson(BrokenIn(nofs, other)) # decRes

\* C4, amended: a mismatch of any one of the three length fields (0xBC,
\* 0xB0, trailer) alone makes decrypt fail, always with the one error
\* "NOFS length fields mismatch.", which does not name the field.
C4_AnyLengthMismatchRejected ==
  (pc = "decrypted" /\ tamper # None /\ tamper.kind \in LengthFields)
  => /\ Fails(decRes, "NOFS length fields mismatch.")
     /\ \A other \in LengthFields :
          DecryptNofsToJson(BrokenIn(nofs, other)) = decRes

C4_Witness ==
  /\ pc = "decrypted" /\ tamper # None /\ tamper.kind = "svdb"
  /\ LE32At(nofs, 176) = 40 + CipherLen(nofs)
  /\ LE32At(nofs, Len(nofs) - 4) = 40 + CipherLen(nofs)
  /\ ~decRes.ok

(***************************************************************************)
(* Inputs of the VectorCodec scenarios.                                    *)
(***************************************************************************)
\* Float32 cells (little-endian bytes): zeros of both signs, 1, -0.5,
\* 0.1f, the least and greatest subnormal, the greatest finite value,
\* the infinities.
F32Samples ==
  { <<0, 0, 0, 0>>, <<0, 0, 0, 128>>, <<0, 0, 128, 63>>, <<0, 0, 0, 191>>,
    <<205, 204, 204, 61>>, <<1, 0, 0, 0>>, <<255, 255, 127, 0>>,
    <<255, 255, 127, 127>>, <<0, 0, 128, 127>>, <<0, 0, 128, 255>> }

\* The positions of a vector the inputs vary.
NumPos == 2

VaryAt == {1, VecLen} \cup {4 * k : k \in 1..(NumPos - 1)}

\* Float32Arrays of 32 cells, and arrays of other lengths.
VecInputs ==
  { [i \in 1..VecLen |-> IF i = p THEN a ELSE b] :
      p \in VaryAt, a \in F32Samples \cup NaNEncodings,
      b \in {<<0, 0, 128, 63>>, <<0, 0, 0, 128>>, <<255, 255, 127, 0>>} }
  \cup { Repeat(<<0, 0, 128, 63>>, n) : n \in {0, 1, VecLen - 1, VecLen + 1} }
  \cup { Repeat(c, VecLen) : c \in NaNEncodings }

\* The hexadecimal text of a Float32Array in lower case.
LowerHexOf(cells) ==
  LET bytes == Flatten(cells)
  IN  Flatten([i \in 1..Len(bytes) |-> ByteToHexLower(bytes[i])])

\* s with the character c at position i.
WithChar(s, i, c) == [s EXCEPT ![i] = c]

\* Texts handed to decode: 256 hexadecimal characters in upper, lower and
\* mixed case, texts of other lengths, and texts of 256 characters one of
\* which is no hexadecimal digit.
HexInputs ==
  LET lower == {LowerHexOf(v) : v \in {w \in VecInputs : Len(w) = VecLen}}
      some == {LowerHexOf([i \in 1..VecLen |-> IF i = p THEN a ELSE <<0, 0, 128, 63>>]) :
                 p \in VaryAt, a \in {<<205, 204, 204, 61>>, <<0, 0, 192, 127>>}}
  IN  lower
      \cup {ToUpperCase(h) : h \in lower}
      \cup {[i \in 1..VecHexLen |-> IF i % 2 = 0 THEN UpperChar(h[i]) ELSE h[i]] :
              h \in some}
      \cup {SubSeq(h, 1, n) : h \in some, n \in {0, 8, VecHexLen - 1}}
      \cup {h \o <<c>> : h \in some, c \in {"0", "\n"}}
      \cup {<<"0", "x">> \o SubSeq(h, 1, VecHexLen - 2) : h \in some}
      \cup {WithChar(h, i, c) : h \in some, i \in {1, 128, VecHexLen},
                                c \in {"g", "G", " ", "-", "."}}

(***************************************************************************)
(* VectorCodec scenarios: encode a Float32Array and decode the result;     *)
(* decode a text and encode the result.                                    *)
(***************************************************************************)
InitVec ==
  /\ \/ /\ pc = "vec"
        /\ vecIn \in VecInputs
        /\ hexIn = None
     \/ /\ pc = "hex"
        /\ hexIn \in HexInputs
        /\ vecIn = None
  /\ hexRes = None /\ vecRes = None
  /\ IdleMig /\ IdleBin /\ IdleMix /\ IdleMag /\ IdleVal /\ IdleExt

Encode ==
  /\ pc = "vec"
  /\ \E nanBytes \in NaNEncodings :
       hexRes' = Vec32ToHex(Float32ArrayRead(vecIn), nanBytes)
  /\ pc' = "encoded"
  /\ UNCHANGED <<vecIn, hexIn, vecRes, migVars, binVars, mixVars, magVars, valVars, extVars>>

DecodeEncoded ==
  /\ pc = "encoded" /\ hexRes.ok
  /\ \E nanBytes \in NaNEncodings :
       vecRes' = HexToVec32(hexRes.v, nanBytes)
  /\ pc' = "vec_back"
  /\ UNCHANGED <<vecIn, hexIn, hexRes, migVars, binVars, mixVars, magVars, valVars, extVars>>

Decode ==
  /\ pc = "hex"
  /\ \E nanBytes \in NaNEncodings :
       vecRes' = HexToVec32(hexIn, nanBytes)
  /\ pc' = "decoded"
  /\ UNCHANGED <<vecIn, hexIn, hexRes, migVars, binVars, mixVars, magVars, valVars, extVars>>

EncodeDecoded ==
  /\ pc = "decoded" /\ vecRes.ok
  /\ \E nanBytes \in NaNEncodings :
       hexRes' = Vec32ToHex(Float32ArrayRead(vecRes.v), nanBytes)
  /\ pc' = "hex_back"
  /\ UNCHANGED <<vecIn, hexIn, vecRes, migVars, binVars, mixVars, magVars, valVars, extVars>>

NextVec == Encode \/ DecodeEncoded \/ Decode \/ EncodeDecoded

SpecVec == InitVec /\ [][NextVec]_vars

(***************************************************************************)
(* VectorCodec properties.                                                 *)
(***************************************************************************)
\* The four bytes the g-th group of eight hexadecimal digits denotes.
GroupBytes(h, g) ==
  [k \in 1..4 |-> 16 * HexVal(h[8 * g - 8 + 2 * k - 1]) + HexVal(h[8 * g - 8 + 2 * k])]

Group(h, g) == SubSeq(h, 8 * g - 7, 8 * g)

C9_MalformedInputRejected ==
  /\ pc = "decoded" =>
       IF IsHexText(hexIn, 256)
       THEN vecRes.ok /\ Len(vecRes.v) = 32
       ELSE vecRes = Throw("Expected 256 hex characters.")
  /\ pc = "encoded" =>
       IF Len(vecIn) = 32
       THEN hexRes.ok /\ Len(hexRes.v) = 256
       ELSE hexRes = Throw("Expected 32 float values.")

C9_Witness ==
  /\ pc = "decoded"
  /\ Len(hexIn) = 256
  /\ \E i \in 1..256 : hexIn[i] \notin HexCharSet
  /\ ~vecRes.ok

(***************************************************************************)
(* Inputs of the Mixer scenarios.  The values are halves of small          *)
(* integers, so every product and partial sum is exact in float32 and the  *)
(* only rounding is that of the final division.                            *)
(***************************************************************************)
MaxChannels == 2

\* The Float32Array holding the Numbers nums.
F32Vec(nums) == Float32ArrayOf(nums, F32Bytes(0, 255, 4194304))

MixVecs ==
  { F32Vec([j \in 1..VecLen |-> Fin(0, 1, 0)]),
    F32Vec([j \in 1..VecLen |-> Fin(0, 3, 0)]),
    F32Vec([j \in 1..VecLen |-> Fin(j % 2, j % 7, -1)]) }

MixWeights == {Fin(0, 1, 0), Fin(1, 1, -1), Fin(0, 2, 0), Fin(0, 0, 0), Fin(1, 1, 0)}

\* Equally many vectors and weights, or one more of either.
MixInputs ==
  { [vectors |-> v, weights |-> w] :
      v \in UNION {[1..n -> MixVecs] : n \in 0..MaxChannels},
      w \in UNION {[1..n -> MixWeights] : n \in 0..MaxChannels} }

\* Float32Arrays holding infinities, NaN and the greatest finite value, and
\* one of three elements only.
MixOddVecs ==
  { [j \in 1..VecLen |->
       CASE j = 1 -> <<0, 0, 128, 127>>
         [] j = 2 -> <<0, 0, 192, 127>>
         [] j = 3 -> <<0, 0, 128, 255>>
         [] OTHER -> <<255, 255, 127, 127>>],
    [j \in 1..VecLen |-> IF j % 2 = 0 THEN <<0, 0, 0, 191>> ELSE <<0, 0, 0, 128>>],
    [j \in 1..3 |-> <<0, 0, 128, 63>>] }

\* Any vectors, every weight +0 or -0.
ZeroWeightInputs ==
  { [vectors |-> v, weights |-> w] :
      v \in UNION {[1..n -> MixOddVecs \cup MixVecs] : n \in {1}}
             \cup UNION {[1..n -> MixOddVecs] : n \in 2..MaxChannels},
      w \in UNION {[1..n -> {Fin(0, 0, 0), Fin(1, 0, 0)}] : n \in 1..MaxChannels} }

(***************************************************************************)
(* Mixer scenarios.                                                        *)
(***************************************************************************)
InitMix ==
  /\ pc = "mix"
  /\ mixIn \in {x \in MixInputs :
                  Len(x.vectors) - Len(x.weights) \in {-1, 0, 1}}
              \cup {x \in ZeroWeightInputs : Len(x.vectors) = Len(x.weights)}
  /\ mixRes = None
  /\ IdleMig /\ IdleBin /\ IdleVec /\ IdleMag /\ IdleVal /\ IdleExt

Mix ==
  /\ pc = "mix"
  /\ \E nanBytes \in NaNEncodings :
       mixRes' = MixVectors(mixIn.vectors, mixIn.weights, nanBytes)
  /\ pc' = "mixed"
  /\ UNCHANGED <<mixIn, migVars, binVars, vecVars, magVars, valVars, extVars>>

NextMix == Mix

SpecMix == InitMix /\ [][NextMix]_vars

(***************************************************************************)
(* Mixer properties, stated in integer arithmetic: weights and vector      *)
(* components are counted in halves, their products in quarters.           *)
(***************************************************************************)
\* The finite Number x as a count of 2^-k.
UnitsOf(x, k) == Signed(x) * 2^(x.e + k)

RECURSIVE SumOver(_, _)
SumOver(f, n) == IF n = 0 THEN 0 ELSE f[n] + SumOver(f, n - 1)

\* The sum of |weight_i|, in halves.
TotalAbsWeight(weights) ==
  SumOver([i \in 1..Len(weights) |-> AbsInt(UnitsOf(weights[i], 1))], Len(weights))

\* The sum of weight_i, in halves.
NetWeight(weights) ==
  SumOver([i \in 1..Len(weights) |-> UnitsOf(weights[i], 1)], Len(weights))

\* The sum over i of weight_i * vectors[i][j], in quarters.
WeightedSum(vectors, weights, j) ==
  SumOver([i \in 1..Len(weights) |->
            UnitsOf(weights[i], 1) * UnitsOf(F32BytesToNumber(vectors[i][j]), 1)],
          Len(weights))

\* The float32 q is the quotient (p quarters) / (s halves) up to the
\* rounding of a float32: |q * s/2 - p/4| <= |p/4| / 2^24.
IsQuotientF32(q, p, s) ==
  /\ q.k = "fin"
  /\ LET g == Min(q.e - 1, -2)
         lhs == Signed(q) * s * 2^(q.e - 1 - g)
         rhs == p * 2^(-2 - g)
     IN  AbsInt(lhs - rhs) <= AbsInt(rhs) \div 16777216

\* C10: for as many vectors as weights and a nonzero sum of the |weight_i|,
\* mix returns that sum as sumAbs and, in every component j, the float32
\* value of (sum over i of weight_i * vectors[i][j]) / sumAbs; the divisor
\* is the total absolute weight, not the net weight.
C10_NormalisedByAbsoluteWeight ==
  (pc = "mixed" /\ Len(mixIn.vectors) = Len(mixIn.weights)
     /\ TotalAbsWeight(mixIn.weights) # 0)
  => /\ mixRes.ok
     /\ mixRes.v.sumAbs.k = "fin"
     /\ UnitsOf(mixRes.v.sumAbs, 1) = TotalAbsWeight(mixIn.weights)
     /\ Len(mixRes.v.vector) = 32
     /\ \A j \in 1..32 :
          IsQuotientF32(F32BytesToNumber(mixRes.v.vector[j]),
                        WeightedSum(mixIn.vectors, mixIn.weights, j),
                        TotalAbsWeight(mixIn.weights))

\* Weights 1 and -0.5: the divisor is 1.5, not 0.5, and a quotient that is
\* no float32 (-1/3) is rounded.
C10_Witness ==
  /\ pc = "mixed"
  /\ mixIn.weights = <<Fin(0, 1, 0), Fin(1, 1, -1)>>
  /\ mixRes.ok
  /\ mixRes.v.sumAbs = Fin(0, 3, -1)
  /\ NetWeight(mixIn.weights) = 1
  /\ \E j \in 1..32 :
       /\ WeightedSum(mixIn.vectors, mixIn.weights, j) = -2
       /\ mixRes.v.vector[j] = <<171, 170, 170, 190>>

\* C11: whenever the sum of the |weight_i| is zero (every weight is +0 or
\* -0, or there are no channels) and there are as many vectors as weights,
\* mix returns 32 components +0 and sumAbs zero, whatever the vectors hold.
C11_ZeroWeightGivesZeroVector ==
  (pc = "mixed" /\ Len(mixIn.vectors) = Len(mixIn.weights)
     /\ \A i \in 1..Len(mixIn.weights) :
          mixIn.weights[i].k = "fin" /\ mixIn.weights[i].m = 0)
  => /\ mixRes.ok
     /\ mixRes.v.vector = [j \in 1..32 |-> <<0, 0, 0, 0>>]
     /\ mixRes.v.sumAbs.k = "fin" /\ mixRes.v.sumAbs.m = 0

\* A vector holding an infinity and a NaN, mixed with weight zero.
C11_Witness ==
  /\ pc = "mixed"
  /\ Len(mixIn.vectors) = 1 /\ Len(mixIn.weights) = 1
  /\ mixIn.weights[1].m = 0
  /\ mixIn.vectors[1][1] = <<0, 0, 128, 127>>
  /\ mixRes.ok
  /\ mixRes.v.vector[1] = <<0, 0, 0, 0>>

\* C12: mix fails with "Weights length mismatch.", returning no vector,
\* whenever the number of vectors differs from the number of weights, and
\* only then.
C12_LengthMismatchRejected ==
  pc = "mixed" =>
    IF Len(mixIn.vectors) # Len(mixIn.weights)
    THEN mixRes = Throw("Weights length mismatch.")
    ELSE mixRes.ok

C12_Witness ==
  /\ pc = "mixed"
  /\ Len(mixIn.vectors) = Len(mixIn.weights) + 1
  /\ ~mixRes.ok

(***************************************************************************)
(* Inputs of the setMagnitude scenarios.                                   *)
(***************************************************************************)
\* The Float32Array of n elements that starts with nums and goes on with +0.
PadVec(nums, n) ==
  F32Vec([j \in 1..n |-> IF j <= Len(nums) THEN nums[j] ELSE Fin(0, 0, 0)])

\* Vectors of nonzero magnitude 5, 1, 13, 2, 10, 1/2, 5 * 2^-149 and
\* 5 * 2^100, with components of both signs and zeros of both signs.
MagVecs ==
  { PadVec(<<Fin(0, 3, 0), Fin(0, 4, 0)>>, VecLen),
    PadVec(<<Fin(0, 1, 0)>>, VecLen),
    PadVec(<<Fin(1, 3, 0), Fin(0, 4, 0), Fin(1, 0, 0)>>, VecLen),
    PadVec(<<Fin(0, 5, 0), Fin(1, 12, 0)>>, VecLen),
    PadVec(<<Fin(0, 1, 0), Fin(1, 1, 0), Fin(0, 1, 0), Fin(0, 1, 0)>>, VecLen),
    PadVec(<<Fin(1, 6, 0), Fin(1, 8, 0)>>, VecLen),
    PadVec(<<Fin(1, 0, 0), Fin(0, 1, -1)>>, VecLen),
    PadVec(<<Fin(0, 3, -149), Fin(0, 4, -149)>>, VecLen),
    PadVec(<<Fin(0, 3, 100), Fin(1, 4, 100)>>, VecLen),
    PadVec(<<Fin(0, 3, 0), Fin(0, 4, 0)>>, 3) }

\* Vectors of magnitude zero: every element +0 or -0, of 32 or other
\* lengths.
ZeroMagVecs ==
  { PadVec(<<>>, VecLen), PadVec(<<>>, 0), PadVec(<<Fin(1, 0, 0)>>, 3),
    PadVec(<<Fin(1, 0, 0), Fin(0, 0, 0), Fin(1, 0, 0)>>, VecLen),
    [j \in 1..VecLen |-> <<0, 0, 0, 128>>] }

\* Vectors holding an infinity or a NaN.
OddMagVecs ==
  { [j \in 1..VecLen |-> IF j = 1 THEN <<0, 0, 128, 127>> ELSE <<0, 0, 128, 63>>],
    [j \in 1..VecLen |-> IF j = 2 THEN <<0, 0, 192, 127>> ELSE <<0, 0, 0, 0>>] }

MagTargets ==
  { Fin(0, 10, 0), Fin(1, 10, 0), Fin(0, 0, 0), Fin(1, 0, 0), Fin(0, 1, 0),
    Fin(1, 1, 0), Fin(0, 5, -1), Fin(0, 3, 0), Fin(1, 1, -1), Fin(0, 13, 0),
    Fin(0, 1, 128), Fin(1, 1, -149), Inf(0), Inf(1), NaN }

(***************************************************************************)
(* setMagnitude scenarios.                                                 *)
(***************************************************************************)
InitMag ==
  /\ pc = "mag"
  /\ magIn \in { [vec |-> v, targetMag |-> x] :
                   v \in MagVecs \cup ZeroMagVecs \cup OddMagVecs,
                   x \in MagTargets }
  /\ magRes = None
  /\ IdleMig /\ IdleBin /\ IdleVec /\ IdleMix /\ IdleVal /\ IdleExt

SetMag ==
  /\ pc = "mag"
  /\ \E nanBytes \in NaNEncodings :
       magRes' = SetMagnitude(magIn.vec, magIn.targetMag, nanBytes)
  /\ pc' = "mag_set"
  /\ UNCHANGED <<magIn, migVars, binVars, vecVars, mixVars, valVars, extVars>>

NextMag == SetMag

SpecMag == InitMag /\ [][NextMag]_vars

(***************************************************************************)
(* Vocabulary of the setMagnitude claims.                                  *)
(***************************************************************************)
\* The float32 cell b holds a normal number (neither zero, subnormal,
\* infinite nor NaN).
IsNormalF32(b) == F32Exp(b) >= 1 /\ F32Exp(b) <= 254

\* The finite Number q is num / den to within one part in 2^23, for finite
\* num and finite den > 0 (the sign of a zero is not compared).
IsRatioF32(q, num, den) ==
  IF num.m = 0 THEN q.k = "fin" /\ q.m = 0
  ELSE /\ q.k = "fin" /\ q.m # 0 /\ q.s = num.s
       /\ LET a == q.e + den.e
              b == num.e
              g == Min(a, b)
          IN  /\ BitLen(num.m) + (b - g) <= 29
              /\ a - g <= 29
              /\ q.m * den.m <= (2 * num.m * 2^(b - g)) \div 2^(a - g)
              /\ LET lhs == q.m * den.m * 2^(a - g)
                     rhs == num.m * 2^(b - g)
                 IN  AbsInt(lhs - rhs) <= rhs \div 8388608

\* The whole number of 4096ths in |q| / |x|, for finite q and x # 0; 8192
\* stands for the ratios too large to count.
Ratio4096(q, x) ==
  LET sh == q.e - x.e + 12
  IN  IF q.m = 0 THEN 0
      ELSE IF sh >= 0
      THEN IF BitLen(q.m) + sh > 30 THEN 8192
           ELSE Min(8192, (q.m * 2^sh) \div x.m)
      ELSE IF -sh > 30 THEN 0
           ELSE Min(8192, (q.m \div 2^(-sh)) \div x.m)

\* The Float32Array out has L2 magnitude |x|: for x infinite, an infinite
\* element and no NaN; for x zero, zeros only; for x finite, finite
\* elements the sum of whose squares, bracketed from their whole numbers
\* of 4096ths of |x|, is |x|^2 to within one part in 2^20.
HasMagnitude(out, x) ==
  CASE x.k = "nan" -> FALSE
    [] x.k = "inf" ->
         /\ \A i \in 1..Len(out) : ~IsNaNBytes(out[i])
         /\ \E i \in 1..Len(out) : F32Exp(out[i]) = 255
    [] x.m = 0 -> \A i \in 1..Len(out) : F32Exp(out[i]) = 0 /\ F32Frac(out[i]) = 0
    [] OTHER ->
         /\ \A i \in 1..Len(out) : F32Exp(out[i]) # 255
         /\ LET r == [i \in 1..Len(out) |-> Ratio4096(F32BytesToNumber(out[i]), x)]
                S == SumOver([i \in 1..Len(out) |-> r[i] * r[i]], Len(out))
                B == SumOver(r, Len(out))
            IN  /\ S <= 16777216 + 16
                /\ S + 2 * B + Len(out) >= 16777216 - 16

\* setMagnitude took the scaling branch: the magnitude of its argument is
\* finite and not zero.
Scaled ==
  /\ pc = "mag_set"
  /\ L2Magnitude(magIn.vec).k = "fin"
  /\ ~NumIsZero(L2Magnitude(magIn.vec))

\* 1 when the target is negative or negative zero, else 0.
TargetSignBit == IF magIn.targetMag.s = 1 THEN 1 ELSE 0

\* The result of setMagnitude([3, 4, 0, ...], -10): -6, -8 and negative zeros.
MinusSixEight ==
  [j \in 1..VecLen |-> IF j = 1 THEN <<0, 0, 192, 192>>
                       ELSE IF j = 2 THEN <<0, 0, 0, 193>> ELSE <<0, 0, 0, 128>>]

\* C13 as stated: whenever the argument has a nonzero magnitude, the
\* result of setMagnitude has magnitude |target| (up to the rounding of
\* its float32 elements), for every target that is a number.
C13_ResultHasTargetMagnitude ==
  (Scaled /\ magIn.targetMag.k # "nan")
    => HasMagnitude(magRes, magIn.targetMag)

\* C13, amended: for a vector of finite nonzero magnitude m and a finite
\* target, every element of the result has the sign of its element of v,
\* reversed when the target is negative or negative zero (zeros
\* included), and, where it is a normal float32, is v_i * |target| / m up
\* to float32 rounding; when every element that comes from a nonzero v_i
\* and a nonzero target is a normal float32, the result has magnitude
\* |target| up to that rounding; [3, 4, 0, ...] with -10 gives
\* [-6, -8, -0, ...]; a target of -0 gives -0 where v is positive and +0
\* gives +0 there.  For an infinite target the elements are NaN where v
\* is zero and infinite elsewhere.
C13_ScaledByTargetOverMagnitude ==
  /\ (Scaled /\ magIn.targetMag.k = "inf")
       => \A i \in 1..Len(magRes) :
            IF IsZero(F32BytesToNumber(magIn.vec[i])) THEN IsNaNBytes(magRes[i])
            ELSE magRes[i] = F32Bytes((F32Sign(magIn.vec[i]) + TargetSignBit) % 2, 255, 0)
  /\ (Scaled /\ magIn.targetMag.k = "fin")
    => LET v == [i \in 1..Len(magIn.vec) |-> F32BytesToNumber(magIn.vec[i])]
           x == magIn.targetMag
           m == L2Magnitude(magIn.vec)
           live == {i \in 1..Len(magIn.vec) : v[i].m # 0 /\ x.m # 0}
       IN  /\ Len(magRes) = Len(magIn.vec)
           /\ \A i \in 1..Len(magRes) :
                /\ F32Sign(magRes[i]) = (v[i].s + TargetSignBit) % 2
                /\ i \notin live => F32Exp(magRes[i]) = 0 /\ F32Frac(magRes[i]) = 0
                /\ (i \in live /\ IsNormalF32(magRes[i]))
                     => IsRatioF32(F32BytesToNumber(magRes[i]),
                                   NumMul(v[i], [x EXCEPT !.s = TargetSignBit]), m)
           /\ (\A i \in live : IsNormalF32(magRes[i])) => HasMagnitude(magRes, x)
           /\ (magIn.vec = PadVec(<<Fin(0, 3, 0), Fin(0, 4, 0)>>, VecLen)
                 /\ x = Fin(1, 10, 0)) => magRes = MinusSixEight
           /\ (IsZero(x) /\ v[1].m # 0 /\ v[1].s = 0)
                => magRes[1] = IF x.s = 1 THEN <<0, 0, 0, 128>> ELSE <<0, 0, 0, 0>>

C13_Witness ==
  /\ pc = "mag_set"
  /\ magIn.vec = PadVec(<<Fin(0, 3, 0), Fin(0, 4, 0)>>, VecLen)
  /\ magIn.targetMag = Fin(1, 10, 0)
  /\ magRes = MinusSixEight

\* C14: when the argument has magnitude zero, setMagnitude returns a
\* vector of the same length whose elements are all +0, for every target.
C14_ZeroMagnitudeGivesZeroVector ==
  (pc = "mag_set" /\ \A i \in 1..Len(magIn.vec) : IsZero(F32BytesToNumber(magIn.vec[i])))
    => magRes = [i \in 1..Len(magIn.vec) |-> <<0, 0, 0, 0>>]

C14_Witness ==
  /\ pc = "mag_set"
  /\ Len(magIn.vec) = VecLen
  /\ magIn.vec[1] = <<0, 0, 0, 128>>
  /\ magIn.targetMag = Fin(1, 10, 0)
  /\ magRes[1] = <<0, 0, 0, 0>>

(***************************************************************************)
(* Inputs of the ConfigValidator scenarios.                                *)
(***************************************************************************)
\* The strings of validConfig() in nofs.test.ts.
TestVB == <<"T", "e", "s", "t", " ", "V", "B">>
TestVendor == <<"T", "e", "s", "t", " ", "V", "e", "n", "d", "o", "r">>
Version200a0 == <<"2", "0", "0", "a", "0">>
English == <<"E", "n", "g", "l", "i", "s", "h">>
Soft == <<"S", "o", "f", "t">>
Power == <<"P", "o", "w", "e", "r">>
BaseModel0 == <<"0","c","c","8","e","4","7","f","4","c","b","c","5","5","2","7","4","c","8","a","f","9","d","d","d","3","b","9","9","9","5","2">>
SingModel0 == <<"1","a","8","3","a","a","7","1","c","b","0","9","e","9","4","b","b","8","1","7","1","a","4","f","3","4","d","2","2","c","a","c">>
TimingModel0 == <<"1","5","3","7","c","8","0","7","a","8","9","2","b","b","0","0","1","3","6","c","2","2","a","8","e","d","c","e","6","b","6","4">>
F0Model0 == <<"0","7","4","c","a","f","0","d","7","9","b","9","2","6","6","3","5","b","b","8","c","1","c","3","6","d","2","c","0","a","3","6">>

\* { name, data }, a style of validConfig().
Style(name, data) == JObj(<< <<"name", JStr(name)>>, <<"data", JStr(data)>> >>)

\* validConfig() of nofs.test.ts.
ValidConfig ==
  JObj(<< <<"name", JStr(TestVB)>>,
          <<"version", JStr(Version200a0)>>,
          <<"vendor", JStr(TestVendor)>>,
          <<"language", JStr(English)>>,
          <<"phoneset", JStr(arpabet)>>,
          <<"support_languages", JArr(<<JStr(english), JStr(spanish)>>)>>,
          <<"base_model", JStr(BaseModel0)>>,
          <<"sing_model", JStr(SingModel0)>>,
          <<"timing_model", JStr(TimingModel0)>>,
          <<"f0_model", JStr(F0Model0)>>,
          <<"styles", JArr(<<Style(Soft, Repeat("A", 256)), Style(Power, Repeat("B", 256))>>)>>,
          <<"pitch", JStr(Repeat("C", 256))>>,
          <<"timing", JStr(Repeat("D", 1024))>> >>)

\* delete config[key].
Without(config, key) ==
  JObj(SelectSeq(config.o, LAMBDA member : member[1] # key))

\* config[key] = value, or delete config[key] when value is undefined.
SetField(config, key, value) ==
  IF value.t = "undefined" THEN Without(config, key)
  ELSE CreateDataProperty(config, key, value)

\* A version of 1 followed by zeros, 310 digits long, and 5 after 310
\* zeros.
HugeVersion == <<"1">> \o Repeat("0", 309)
PaddedVersion == Repeat("0", 310) \o <<"5">>

VersionValues ==
  { JStr(<<"2", "0", "0">>), JStr(<<"0">>), JStr(<<"0", "0", "7", "b", "1", "2">>),
    JStr(<<"v", "2">>), JStr(<<"2", "a">>), JStr(<<"a", "1">>), JStr(<<"1", "c", "2">>),
    JStr(<<"1", "a", "2", "b", "3">>), JStr(<<"1", "\n">>), JStr(<<"-", "1">>), JStr(<<>>),
    JStr(HugeVersion), JStr(<<"1", "b">> \o HugeVersion), JStr(PaddedVersion),
    JNum(Fin(0, 200, 0)), JNull, Undefined }

LanguageValues ==
  { JStr(English), JStr(ToUpperCase(english)), JStr(japanese),
    JStr(<<"M", "a", "n", "d", "a", "r", "i", "n">>), JStr(cantonese),
    JStr(ToUpperCase(spanish)), JStr(<<"k", "l", "i", "n", "g", "o", "n">>),
    JStr(<<>>), JStr(<<"e", "n", "g", "l", "i", "s", "h", " ">>),
    JNum(Fin(0, 1, 0)), JNull, Undefined }

PhonesetValues ==
  { JStr(arpabet), JStr(ToUpperCase(arpabet)), JStr(xsampa),
    JStr(<<"X", "s", "a", "m", "p", "a">>), JStr(romaji), JStr(<<>>),
    JStr(<<"i", "p", "a">>), JNum(Fin(0, 3, 0)), JNull, Undefined }

SupportLanguagesValues ==
  { JArr(<<>>), JArr(<<JStr(ToUpperCase(english))>>),
    JArr(<<JStr(<<"k", "l", "i", "n", "g", "o", "n">>)>>),
    JArr(<<JNum(Fin(0, 1, 0))>>),
    JArr(<<JStr(english), JNull, JStr(<<"k", "l", "i", "n", "g", "o", "n">>), JStr(japanese)>>),
    JStr(english), JObj(<<>>), JNull, Undefined }

\* For each model key, values outside its allow-list: a missing or
\* non-string value, an identifier of another list, an identifier of its
\* own list in upper case; and another identifier of its own list.
ModelKeys == <<"base_model", "sing_model", "timing_model", "f0_model">>

ModelValues(key) ==
  LET own == CASE key = "base_model" -> BaseModel0 [] key = "sing_model" -> SingModel0
               [] key = "timing_model" -> TimingModel0 [] key = "f0_model" -> F0Model0
      other == IF key = "base_model" THEN SingModel0 ELSE BaseModel0
      second == CASE key = "base_model" -> CHOOSE x \in ALLOWED_BASE_MODEL : x # own
                  [] key = "sing_model" -> CHOOSE x \in ALLOWED_SING_MODEL : x # own
                  [] key = "timing_model" -> CHOOSE x \in ALLOWED_TIMING_MODEL : x # own
                  [] key = "f0_model" -> CHOOSE x \in ALLOWED_F0_MODEL : x # own
  IN  { JStr(other), JStr(ToUpperCase(own)), JStr(second), JStr(<<>>),
        JNum(Fin(0, 1, 0)), Undefined }

\* Values of pitch (n = 256), timing (n = 1024) and of the data of a style.
HexValues(n) ==
  { JStr(Repeat("c", n)), JStr(Repeat("C", n - 1)), JStr(Repeat("C", n + 1)),
    JStr([i \in 1..n |-> IF i = n THEN "G" ELSE "0"]),
    JStr([i \in 1..n |-> IF i % 2 = 0 THEN "f" ELSE "9"]),
    JStr(Repeat("A", 10)), JStr(Repeat("A", n) \o <<"\n">>), JStr(<<>>),
    JNum(Fin(0, 1, 0)), JNull, JArr(<<>>), Undefined }

\* Entries of a styles array: the two of validConfig(), names that differ
\* in case, that hold a space, a tab or a line feed, names and data that
\* are missing or not strings, unknown keys, and entries that are not
\* objects.
SoftSpace == <<"S", "o", " ", "f", "t">>
SoftTab == <<"S", "o", "\t", "f", "t">>
SoftLine == <<"S", "o", "f", "t", "\n">>

ValStyleEntries ==
  { Style(Soft, Repeat("A", 256)),
    Style(Soft, Repeat("b", 256)),
    Style(Power, Repeat("B", 256)),
    Style(ToLowerCase(Soft), Repeat("A", 256)),
    Style(SoftSpace, Repeat("A", 256)),
    Style(SoftTab, Repeat("A", 256)),
    Style(Soft, Repeat("A", 10)),
    JObj(<< <<"name", JNum(Fin(0, 21, 1))>>, <<"data", JStr(Repeat("A", 256))>> >>),
    JObj(<< <<"data", JNum(Fin(0, 1, 0))>>, <<"extra", JNum(Fin(0, 1, -1))>>,
            <<"color", JStr(Soft)>> >>),
    JNull }

MaxEntries == 2

RECURSIVE SeqsUpTo(_, _)
\* The sequences of at most n elements of S.
SeqsUpTo(S, n) ==
  IF n = 0 THEN {<<>>}
  ELSE LET shorter == SeqsUpTo(S, n - 1)
       IN  shorter \cup {Append(s, x) : s \in {t \in shorter : Len(t) = n - 1}, x \in S}

\* Longer arrays: a name three times, names repeated after other names,
\* a repeated name that holds a space, a name after entries that are not
\* objects or have no string name, an entry without data.
LongStyles ==
  LET a == Style(Soft, Repeat("A", 256))
      b == Style(Power, Repeat("B", 256))
      c == Style(SoftSpace, Repeat("A", 256))
      d == Style(SoftLine, Repeat("A", 256))
      n == JObj(<< <<"name", JNum(Fin(0, 21, 1))>>, <<"data", JStr(Repeat("A", 256))>> >>)
  IN  { <<a, a, a>>, <<a, b, a>>, <<a, b, b, a>>, <<b, a, b>>, <<c, a, c>>,
        <<d, d>>, <<JArr(<<a>>), a, JStr(Soft), a>>, <<n, n, a, n>>,
        <<a, b, Style(<<>>, Repeat("A", 256)), Style(<<>>, Repeat("A", 256))>>,
        <<JObj(<< <<"name", JStr(Soft)>> >>)>> }

StylesValues ==
  {JArr(s) : s \in SeqsUpTo(ValStyleEntries, MaxEntries) \cup LongStyles}
    \cup {JObj(<<>>), JStr(Soft), JNull, Undefined}

\* The values a key takes.
FieldValues(key) ==
  CASE key = "name" -> {JStr(<<>>), JNum(Fin(0, 1, 0)), JNull, Undefined}
    [] key = "vendor" -> {JBool(TRUE), JArr(<<>>), Undefined}
    [] key = "version" -> VersionValues
    [] key = "language" -> LanguageValues
    [] key = "phoneset" -> PhonesetValues
    [] key = "support_languages" -> SupportLanguagesValues
    [] key \in Range(ModelKeys) -> ModelValues(key)
    [] key = "styles" -> StylesValues
    [] key = "pitch" -> HexValues(256)
    [] key = "timing" -> HexValues(1024)

\* Two values of each key that break its rule: the key missing, and a
\* value of the wrong type.
BrokenValues(key) ==
  {Undefined, IF key = "name" THEN JNull ELSE JStr(<<"?">>)}

\* validConfig() with one key changed; with language and phoneset changed;
\* with two keys broken; with every key broken; with further keys.
OneChanged ==
  UNION {{SetField(ValidConfig, key, v) : v \in FieldValues(key)} : key \in TOP_LEVEL_KEYS}

LanguageAndPhoneset ==
  { SetField(SetField(ValidConfig, "language", l), "phoneset", p) :
      l \in LanguageValues, p \in PhonesetValues }

TwoBroken ==
  UNION { { SetField(SetField(ValidConfig, k1, v1), k2, v2) :
              v1 \in BrokenValues(k1), v2 \in BrokenValues(k2) } :
          k1 \in TOP_LEVEL_KEYS, k2 \in TOP_LEVEL_KEYS }

RECURSIVE BreakAll(_, _)
BreakAll(config, i) ==
  IF i > Len(config.o) THEN config
  ELSE BreakAll(SetField(config, config.o[i][1], JNum(Fin(0, i, 0))), i + 1)

ExtraKeys ==
  { CreateDataProperty(ValidConfig, "unknown_key", JStr(<<"o", "o", "p", "s">>)),
    CreateDataProperty(CreateDataProperty(ValidConfig, "pitch_model", JStr(SingModel0)),
                       "__proto__", JNull),
    CreateDataProperty(JObj(<<>>), "Name", JStr(TestVB)) }

\* Roots that are not objects.
OtherRoots ==
  { JNull, JBool(FALSE), JNum(Fin(0, 0, 0)), JStr(TestVB), JArr(<<>>),
    JArr(<<ValidConfig>>), Undefined }

ValDocs ==
  {ValidConfig, JObj(<<>>), BreakAll(ValidConfig, 1)}
    \cup OneChanged \cup LanguageAndPhoneset \cup TwoBroken \cup ExtraKeys \cup OtherRoots

(***************************************************************************)
(* ConfigValidator scenarios.                                              *)
(***************************************************************************)
InitVal ==
  /\ pc = "val"
  /\ valDoc \in ValDocs
  /\ valRes = None
  /\ IdleMig /\ IdleBin /\ IdleVec /\ IdleMix /\ IdleMag /\ IdleExt

Validate ==
  /\ pc = "val"
  /\ valRes' = ValidateNofsData(valDoc)
  /\ pc' = "validated"
  /\ UNCHANGED <<valDoc, migVars, binVars, vecVars, mixVars, magVars, extVars>>

NextVal == Validate

SpecVal == InitVal /\ [][NextVal]_vars

(***************************************************************************)
(* Vocabulary of the ConfigValidator claims.                               *)
(***************************************************************************)
\* The call returned (it did not throw), with these errors and warnings.
Returned == pc = "validated" /\ valRes.ok
Errors == valRes.v.errors
Warnings == valRes.v.warnings

\* The grammar <int>[a|b<int>]: digits, then optionally a or b and digits.
IsVersionText(s) ==
  \E k \in 1..Len(s) :
    /\ \A i \in 1..k : s[i] \in {"0", "1", "2", "3", "4", "5", "6", "7", "8", "9"}
    /\ \/ k = Len(s)
       \/ /\ k + 2 <= Len(s)
          /\ s[k + 1] \in {"a", "b"}
          /\ \A i \in (k + 2)..Len(s) :
               s[i] \in {"0", "1", "2", "3", "4", "5", "6", "7", "8", "9"}

\* The integers of a version text, as digit strings.
VersionIntegers(s) ==
  LET letters == {i \in 1..Len(s) : s[i] \in {"a", "b"}}
  IN  IF letters = {} THEN {s}
      ELSE LET k == CHOOSE i \in letters : TRUE
           IN  {SubSeq(s, 1, k - 1), SubSeq(s, k + 1, Len(s))}

\* The number of digits of a digit string from its first nonzero digit on.
SignificantDigits(digits) ==
  Cardinality({i \in 1..Len(digits) : \E j \in 1..i : digits[j] # "0"})

\* The digits of the largest power of ten below the largest double.
MaxVersionDigits == 308

\* Two strings equal up to the case of the letters A-Z.
EqualsIgnoreCase(s, u) ==
  /\ Len(s) = Len(u)
  /\ \A i \in 1..Len(s) :
       \/ s[i] = u[i]
       \/ \E j \in 1..26 : {s[i], u[i]} = {LowerLetters[j], UpperLetters[j]}

WhiteSpace == {" ", "\t", "\n", "\r"}

\* The member key of the object d is a string.
HasString(d, key) == HasOwn(d, key) /\ Get(d, key).t = "str"

\* The configuration rules: the 13 fields present with their types, the
\* version grammar, a language of the allowed set in any letter case, the
\* phoneset mandated for it, supported languages of the allowed set, model
\* identifiers of their allow-lists, style names unique and free of white
\* space, hexadecimal texts of 256 (style data, pitch) and 1024 (timing)
\* characters.
SatisfiesRules(d) ==
  /\ d.t = "obj"
  /\ \A key \in TOP_LEVEL_KEYS \ {"support_languages", "styles"} : HasString(d, key)
  /\ IsVersionText(Get(d, "version").s)
  /\ \E l \in ALLOWED_LANGUAGES :
       /\ EqualsIgnoreCase(Get(d, "language").s, l)
       /\ Get(d, "phoneset").s = PHONESET_BY_LANGUAGE(l)
  /\ HasOwn(d, "support_languages") /\ Get(d, "support_languages").t = "arr"
  /\ \A i \in 1..Len(Get(d, "support_languages").a) :
       LET entry == Get(d, "support_languages").a[i]
       IN  entry.t = "str" /\ entry.s \in ALLOWED_LANGUAGES
  /\ Get(d, "sing_model").s \in ALLOWED_SING_MODEL
  /\ Get(d, "base_model").s \in ALLOWED_BASE_MODEL
  /\ Get(d, "timing_model").s \in ALLOWED_TIMING_MODEL
  /\ Get(d, "f0_model").s \in ALLOWED_F0_MODEL
  /\ HasOwn(d, "styles") /\ Get(d, "styles").t = "arr"
  /\ LET styles == Get(d, "styles").a
     IN  /\ \A i \in 1..Len(styles) :
               /\ styles[i].t = "obj"
               /\ HasString(styles[i], "name") /\ HasString(styles[i], "data")
               /\ \A j \in 1..Len(Get(styles[i], "name").s) :
                    Get(styles[i], "name").s[j] \notin WhiteSpace
               /\ IsHexText(Get(styles[i], "data").s, 256)
         /\ \A i \in 1..Len(styles) : \A j \in 1..(i - 1) :
               Get(styles[i], "name").s # Get(styles[j], "name").s
  /\ IsHexText(Get(d, "pitch").s, 256)
  /\ IsHexText(Get(d, "timing").s, 1024)

Only(d, keys) == JObj(SelectSeq(d.o, LAMBDA member : member[1] \in keys))

\* The issues of a list whose path starts with key.
At(issues, key) == SelectSeq(issues, LAMBDA issue : issue.path[1] = key)

\* The fields the rules of a key read: the rules of phoneset read the
\* language as well, every other key has rules of its own value only.
RuleFields(key) == IF key = "phoneset" THEN {"language", "phoneset"} ELSE {key}

\* What validate returns for d reduced to the fields of the rules of key.
Alone(d, key) == ValidateNofsData(Only(d, RuleFields(key))).v

\* The keys of d whose rules are broken, each judged on its own.
BrokenKeys(d) == {key \in TOP_LEVEL_KEYS : At(Alone(d, key).errors, key) # <<>>}

\* C16: for an object root every rule is evaluated: the errors and
\* warnings reported under each key are those reported when every other
\* field is missing (for phoneset: every field but language), so a
\* document that breaks the rules of k keys gets at least k errors, one
\* or more under each of them, and the empty object gets one error under
\* each of the 13 required keys.
C16_EveryRuleEvaluated ==
  (Returned /\ valDoc.t = "obj")
    => /\ \A key \in TOP_LEVEL_KEYS \cup Range(Keys(valDoc)) :
            /\ At(Errors, key) = At(Alone(valDoc, key).errors, key)
            /\ At(Warnings, key) = At(Alone(valDoc, key).warnings, key)
       /\ \A key \in BrokenKeys(valDoc) : At(Errors, key) # <<>>
       /\ Len(Errors) >= Cardinality(BrokenKeys(valDoc))
       /\ valDoc = JObj(<<>>)
            => /\ Len(Errors) = 13
               /\ \A key \in TOP_LEVEL_KEYS : Len(At(Errors, key)) = 1

C16_Witness ==
  /\ Returned
  /\ valDoc = SetField(SetField(ValidConfig, "name", Undefined), "timing", JStr(<<"?">>))
  /\ Len(Errors) = 2
  /\ Errors[1].path = <<"name">> /\ Errors[2].path = <<"timing">>

\* C17: validate never throws: for every parsed value it returns an object
\* of two lists, errors and warnings, and for a root that is not an object
\* the lists hold one error and no warning.
C17_NeverThrows ==
  pc = "validated"
    => /\ valRes.ok
       /\ DOMAIN valRes.v = {"errors", "warnings"}
       /\ DOMAIN Errors = 1..Len(Errors) /\ DOMAIN Warnings = 1..Len(Warnings)
       /\ valDoc.t # "obj" => (Len(Errors) = 1 /\ Warnings = <<>>)

C17_Witness ==
  /\ pc = "validated"
  /\ valDoc = JArr(<<ValidConfig>>)
  /\ valRes.ok /\ Len(Errors) = 1 /\ Warnings = <<>>

\* The language of d is a string that is, in some letter case, one of the
\* five known languages.
KnownLanguage(d) ==
  /\ HasString(d, "language")
  /\ \E l \in ALLOWED_LANGUAGES : EqualsIgnoreCase(Get(d, "language").s, l)

\* That known language, in lower case.
LanguageOf(d) ==
  CHOOSE l \in ALLOWED_LANGUAGES : EqualsIgnoreCase(Get(d, "language").s, l)

\* The positions in the errors of the errors that name an expected
\* phoneset.
MismatchErrors == {i \in 1..Len(Errors) : Len(Errors[i].message) = 5}

\* C18: when the language is one of the five known languages in any
\* letter case, validate reports an error naming the mandated phoneset
\* exactly when the phoneset is a string that differs from it otherwise
\* than in letter case (a phoneset that is not a string gets the
\* must-be-a-string error); when the language is missing, not a string or
\* not a known language, it reports no such error.
C18_PhonesetMismatch ==
  (Returned /\ valDoc.t = "obj")
    => IF KnownLanguage(valDoc)
       THEN LET expected == PHONESET_BY_LANGUAGE(LanguageOf(valDoc))
            IN  /\ MismatchErrors # {}
                     <=> /\ HasString(valDoc, "phoneset")
                         /\ ~EqualsIgnoreCase(Get(valDoc, "phoneset").s, expected)
                /\ Cardinality(MismatchErrors) <= 1
                /\ \A i \in MismatchErrors :
                     /\ Errors[i].message =
                          <<"\"phoneset\" must be \"", expected,
                            "\" when language is \"", LanguageOf(valDoc), "\".">>
                     /\ Errors[i].path = <<"phoneset">>
                /\ ~HasString(valDoc, "phoneset")
                     => \E i \in 1..Len(Errors) :
                          /\ Errors[i].message = <<"\"phoneset\" must be a string.">>
                          /\ Errors[i].path = <<"phoneset">>
       ELSE MismatchErrors = {}

C18_Witness ==
  /\ Returned
  /\ valDoc = SetField(SetField(ValidConfig, "language", JStr(ToUpperCase(spanish))),
                       "phoneset", JStr(ToUpperCase(arpabet)))
  /\ Len(Errors) = 1
  /\ Errors[1].message[2] = xsampa

\* The entry of a styles array is an object with a string name.
HasName(entry) == entry.t = "obj" /\ HasString(entry, "name")

\* The positions in the errors of the duplicate-name errors.
DuplicateErrors ==
  {i \in 1..Len(Errors) :
     Len(Errors[i].message) = 3 /\ Errors[i].message[1] = "Duplicate style name \""}

\* C19: for every styles array, validate reports one "Duplicate style
\* name" error at [styles, i, name], naming the name, for each entry i
\* whose name is the name of an earlier entry, and no other; the first
\* entry of a name is not flagged, and pairwise distinct names give no
\* such error.
C19_DuplicateNames ==
  (Returned /\ valDoc.t = "obj" /\ HasOwn(valDoc, "styles") /\ Get(valDoc, "styles").t = "arr")
    => LET styles == Get(valDoc, "styles").a
           repeated == {i \in 1..Len(styles) :
                          /\ HasName(styles[i])
                          /\ \E j \in 1..(i - 1) :
                               /\ HasName(styles[j])
                               /\ Get(styles[j], "name").s = Get(styles[i], "name").s}
       IN  /\ \A i \in repeated :
                Cardinality({e \in DuplicateErrors :
                               Errors[e].path = <<"styles", i - 1, "name">>}) = 1
           /\ \A e \in DuplicateErrors :
                /\ Len(Errors[e].path) = 3
                /\ Errors[e].path[2] + 1 \in repeated
                /\ Errors[e].path = <<"styles", Errors[e].path[2], "name">>
                /\ Errors[e].message[2] = Get(styles[Errors[e].path[2] + 1], "name").s

C19_Witness ==
  /\ Returned
  /\ valDoc = SetField(ValidConfig, "styles",
                JArr(<<Style(Soft, Repeat("A", 256)), Style(Power, Repeat("B", 256)),
                       Style(Soft, Repeat("A", 256))>>))
  /\ Len(Errors) = 1
  /\ Errors[1].path = <<"styles", 2, "name">>

\* C20 as stated: validate reports an error at [styles, i, name] for every
\* style i whose name holds a white space character (space, tab, line
\* feed or carriage return).
C20_WhiteSpaceInNameReported ==
  (Returned /\ valDoc.t = "obj" /\ HasOwn(valDoc, "styles") /\ Get(valDoc, "styles").t = "arr")
    => LET styles == Get(valDoc, "styles").a
       IN  \A i \in 1..Len(styles) :
             (/\ HasName(styles[i])
              /\ \E j \in 1..Len(Get(styles[i], "name").s) :
                   Get(styles[i], "name").s[j] \in WhiteSpace)
               => \E e \in 1..Len(Errors) :
                    /\ Len(Errors[e].path) = 3
                    /\ Errors[e].path[1] = "styles"
                    /\ Errors[e].path[2] = i - 1
                    /\ Errors[e].path[3] = "name"

\* The issue has a severity and a message of at least one character.
HasSeverityAndMessage(issue, severity) ==
  /\ {"message", "severity"} \subseteq DOMAIN issue
  /\ issue.severity = severity
  /\ issue.message # <<>>
  /\ issue.message # <<"">>

\* The issue has a path: a sequence of at least one field name or index.
HasPath(issue) ==
  /\ "path" \in DOMAIN issue
  /\ DOMAIN issue.path = 1..Len(issue.path)
  /\ Len(issue.path) >= 1

\* C21 as stated: every issue validate returns, for a root that is not an
\* object too, has a severity, a message and a path; the severity is
\* "error" in errors and "warning" in warnings.
C21_EveryIssueHasPath ==
  Returned
    => /\ \A i \in 1..Len(Errors) :
            HasSeverityAndMessage(Errors[i], "error") /\ HasPath(Errors[i])
       /\ \A i \in 1..Len(Warnings) :
            HasSeverityAndMessage(Warnings[i], "warning") /\ HasPath(Warnings[i])

\* C21 amended: every issue has a severity and a message, "error" in
\* errors and "warning" in warnings; every issue of a root that is an
\* object has a path, and the one error of a root that is not an object
\* has none.
C21_EveryIssueOfAnObjectHasPath ==
  Returned
    => /\ \A i \in 1..Len(Errors) : HasSeverityAndMessage(Errors[i], "error")
       /\ \A i \in 1..Len(Warnings) : HasSeverityAndMessage(Warnings[i], "warning")
       /\ IsObject(valDoc)
            => /\ \A i \in 1..Len(Errors) : HasPath(Errors[i])
               /\ \A i \in 1..Len(Warnings) : HasPath(Warnings[i])
       /\ ~IsObject(valDoc)
            => /\ Len(Errors) = 1 /\ Warnings = <<>>
               /\ DOMAIN Errors[1] = {"message", "severity"}

C21_Witness ==
  /\ Returned
  /\ valDoc = CreateDataProperty(ValidConfig, "unknown_key", JStr(<<"o", "o", "p", "s">>))
  /\ Errors = <<>>
  /\ Len(Warnings) = 1
  /\ Warnings[1].severity = "warning"
  /\ Warnings[1].path = <<"unknown_key">>

\* The errors whose path is [styles, index, "data"].
AtStyleData(issues, index) ==
  SelectSeq(issues, LAMBDA issue : /\ Len(issue.path) = 3
                                   /\ issue.path[1] = "styles"
                                   /\ issue.path[2] = index
                                   /\ issue.path[3] = "data")

\* The issues are one error with the message "<key> is required.".
IsRequiredError(issues, key) ==
  /\ Len(issues) = 1
  /\ Len(issues[1].message) = 1
  /\ issues[1].message[1] = (IF key = "pitch" THEN "\"pitch\" is required."
                             ELSE "\"timing\" is required.")

\* The issues are one error with the message that names the length n.
IsHexLengthError(issues, n) ==
  /\ Len(issues) = 1
  /\ Len(issues[1].message) = 3
  /\ issues[1].message[1] = "Hex value must be exactly "
  /\ issues[1].message[2] = n
  /\ issues[1].message[3] = " hex characters."

\* The issues are one error with the message "Hex value must be a string.".
IsHexStringError(issues) ==
  /\ Len(issues) = 1
  /\ Len(issues[1].message) = 1
  /\ issues[1].message[1] = "Hex value must be a string."

\* The required length of pitch and of timing.
HexLengthOf(key) == IF key = "pitch" THEN 256 ELSE 1024

\* The entries of styles when it is an array, no entries otherwise.
StylesOf(d) ==
  IF HasOwn(d, "styles") /\ Get(d, "styles").t = "arr" THEN Get(d, "styles").a ELSE <<>>

\* C22 as stated: a missing pitch or timing gets the "required" error; a
\* present one that is not a string, has another length or holds a
\* character that is not a hex digit gets the error naming the length; a
\* hex string of the length, in either case, gets nothing; and the data
\* of a style follows the same rule at 256 characters.
C22_WrongShapeGetsHexLengthError ==
  (Returned /\ IsObject(valDoc))
    => /\ \A key \in {"pitch", "timing"} :
            LET found == At(Errors, key)
                n == HexLengthOf(key)
            IN  IF ~HasOwn(valDoc, key) THEN IsRequiredError(found, key)
                ELSE IF HasString(valDoc, key) /\ IsHexText(Get(valDoc, key).s, n)
                THEN found = <<>>
                ELSE IsHexLengthError(found, n)
       /\ \A i \in 1..Len(StylesOf(valDoc)) :
            LET entry == StylesOf(valDoc)[i]
                found == AtStyleData(Errors, i - 1)
            IN  (IsObject(entry) /\ HasOwn(entry, "data"))
                  => IF HasString(entry, "data") /\ IsHexText(Get(entry, "data").s, 256)
                     THEN found = <<>>
                     ELSE IsHexLengthError(found, 256)

\* C22 amended: as C22, but a present value that is not a string gets the
\* error "Hex value must be a string." instead of the one naming the
\* length, and so does the data of a style that is missing.
C22_HexRule ==
  (Returned /\ IsObject(valDoc))
    => /\ \A key \in {"pitch", "timing"} :
            LET found == At(Errors, key)
                n == HexLengthOf(key)
            IN  IF ~HasOwn(valDoc, key) THEN IsRequiredError(found, key)
                ELSE IF ~HasString(valDoc, key) THEN IsHexStringError(found)
                ELSE IF IsHexText(Get(valDoc, key).s, n) THEN found = <<>>
                ELSE IsHexLengthError(found, n)
       /\ \A i \in 1..Len(StylesOf(valDoc)) :
            LET entry == StylesOf(valDoc)[i]
                found == AtStyleData(Errors, i - 1)
            IN  IF ~IsObject(entry) THEN found = <<>>
                ELSE IF ~HasString(entry, "data") THEN IsHexStringError(found)
                ELSE IF IsHexText(Get(entry, "data").s, 256) THEN found = <<>>
                ELSE IsHexLengthError(found, 256)

C22_Witness ==
  /\ Returned
  /\ valDoc = SetField(ValidConfig, "timing", JStr(Repeat("C", 1023)))
  /\ Len(Errors) = 1
  /\ Errors[1].path = <<"timing">>
  /\ Errors[1].message = <<"Hex value must be exactly ", 1024, " hex characters.">>

(***************************************************************************)
(* normalizeNofsConfig scenarios.                                          *)
(***************************************************************************)
Klingon == <<"K", "l", "i", "n", "g", "o", "n">>
MixedHex(n) == [i \in 1..n |-> IF i % 2 = 0 THEN "f" ELSE "9"]

\* Values of the fields normalizeNofsConfig rewrites, of the types
\* VBConfig gives them.
NormLanguages ==
  { JStr(English), JStr(english), JStr(ToUpperCase(english)), JStr(japanese),
    JStr(<<"M", "a", "n", "d", "a", "r", "i", "n">>), JStr(Klingon),
    JStr(ToLowerCase(Klingon)), JStr(<<>>) }

NormPhonesets ==
  { JStr(arpabet), JStr(ToUpperCase(arpabet)), JStr(xsampa), JStr(romaji),
    JStr(<<"I", "p", "a">>), JStr(<<>>) }

NormSupportLanguages ==
  { JArr(<<>>), JArr(<<JStr(ToUpperCase(english))>>),
    JArr(<<JStr(english), JStr(<<"S", "p", "a", "n", "i", "s", "h">>),
           JStr(ToUpperCase(japanese))>>),
    JArr(<<JStr(Klingon), JStr(english)>>) }

NormStyles ==
  { JArr(<<>>),
    JArr(<<Style(Soft, Repeat("a", 256))>>),
    JArr(<<Style(Power, MixedHex(256)), Style(Soft, Repeat("A", 256))>>),
    JArr(<<CreateDataProperty(Style(Soft, Repeat("b", 256)), "color", JStr(Soft)),
           Style(Power, Repeat("B", 256))>>),
    JArr(<<JObj(<< <<"data", JStr(Repeat("c", 256))>>, <<"name", JStr(Power)>> >>),
           Style(Soft, <<"a", "b", "c">>), Style(ToLowerCase(Soft), <<>>)>>) }

NormHex(n) ==
  { JStr(Repeat("c", n)), JStr(MixedHex(n)), JStr(<<"a", "b", "c">>),
    JStr(Repeat("g", n)), JStr(<<>>), Undefined }

\* validConfig() with one of these fields changed, with language and
\* phoneset changed, with all of them changed, and with a further key.
NormConfigs ==
  LET lower == SetField(SetField(SetField(ValidConfig,
                 "pitch", JStr(Repeat("c", 256))),
                 "timing", JStr(MixedHex(1024))),
                 "styles", JArr(<<Style(Soft, Repeat("a", 256))>>))
  IN  { SetField(SetField(ValidConfig, "language", l), "phoneset", p) :
          l \in NormLanguages, p \in NormPhonesets }
        \cup { SetField(ValidConfig, "support_languages", v) : v \in NormSupportLanguages }
        \cup { SetField(ValidConfig, "styles", v) : v \in NormStyles }
        \cup { SetField(ValidConfig, "pitch", v) : v \in NormHex(256) }
        \cup { SetField(ValidConfig, "timing", v) : v \in NormHex(1024) }
        \cup { SetField(SetField(lower, "language", l), "support_languages", v) :
                 l \in NormLanguages, v \in NormSupportLanguages }
        \cup { SetField(SetField(ValidConfig, "pitch", Undefined), "timing", Undefined),
               CreateDataProperty(lower, "comment", JStr(Soft)),
               Without(CreateDataProperty(lower, "phoneset", JStr(ToUpperCase(romaji))),
                       "name") }

InitNorm ==
  /\ pc = "norm"
  /\ normCfg \in NormConfigs
  /\ normOnce = None /\ normTwice = None /\ normVal = None
  /\ IdleCore /\ IdleSave /\ IdleUi

\* const normalized = normalizeNofsConfig(config).
Normalize ==
  /\ pc = "norm"
  /\ normOnce' = NormalizeNofsConfig(normCfg)
  /\ pc' = "normalized"
  /\ UNCHANGED <<normCfg, normTwice, normVal, coreVars, saveVars, uiVars>>

\* normalizeNofsConfig applied to its own result.
NormalizeAgain ==
  /\ pc = "normalized"
  /\ normTwice' = NormalizeNofsConfig(normOnce)
  /\ pc' = "twice"
  /\ UNCHANGED <<normCfg, normOnce, normVal, coreVars, saveVars, uiVars>>

\* const validation = validateNofsData(normalized).
ValidateNormalized ==
  /\ pc = "twice"
  /\ normVal' = ValidateNofsData(normOnce)
  /\ pc' = "normval"
  /\ UNCHANGED <<normCfg, normOnce, normTwice, coreVars, saveVars, uiVars>>

NextNorm == Normalize \/ NormalizeAgain \/ ValidateNormalized

SpecNorm == InitNorm /\ [][NextNorm]_vars

(***************************************************************************)
(* Vocabulary of the normalizeNofsConfig claim.                            *)
(***************************************************************************)
\* The keys normalizeNofsConfig defines.
NormKeys == {"language", "support_languages", "phoneset", "styles", "pitch", "timing"}

\* The text in lower case is one of the five languages.
IsKnownLanguage(text) == ToLowerCase(text) \in ALLOWED_LANGUAGES

\* out is c with language and support_languages in lower case, phoneset
\* the one of a known language, and data, pitch and timing in upper case;
\* a missing pitch or timing has no value in out either.
IsNormalFormOf(out, c) ==
  LET languages == Get(c, "support_languages").a
      styles == Get(c, "styles").a
  IN  /\ out.t = "obj"
      /\ Prop(out, "language") = JStr(ToLowerCase(Get(c, "language").s))
      /\ Prop(out, "support_languages").t = "arr"
      /\ Len(Prop(out, "support_languages").a) = Len(languages)
      /\ \A i \in 1..Len(languages) :
            Prop(out, "support_languages").a[i] = JStr(ToLowerCase(languages[i].s))
      /\ Prop(out, "phoneset") =
            (IF IsKnownLanguage(Get(c, "language").s)
             THEN JStr(PHONESET_BY_LANGUAGE(ToLowerCase(Get(c, "language").s)))
             ELSE Prop(c, "phoneset"))
      /\ Prop(out, "styles").t = "arr"
      /\ Len(Prop(out, "styles").a) = Len(styles)
      /\ \A i \in 1..Len(styles) :
            LET style == Prop(out, "styles").a[i]
            IN  /\ style.t = "obj"
                /\ Keys(style) = Keys(styles[i])
                /\ \A k \in Range(Keys(style)) :
                      Get(style, k) = (IF k = "data"
                                       THEN JStr(ToUpperCase(Get(styles[i], "data").s))
                                       ELSE Get(styles[i], k))
      /\ \A k \in {"pitch", "timing"} :
            Prop(out, k) = (IF HasOwn(c, k) THEN JStr(ToUpperCase(Get(c, k).s))
                            ELSE Undefined)
      /\ \A k \in Range(Keys(c)) \ NormKeys : Prop(out, k) = Get(c, k)
      /\ SelectSeq(Keys(out), LAMBDA k : HasOwn(c, k)) = Keys(c)
      /\ Range(Keys(out)) \subseteq Range(Keys(c)) \cup NormKeys

\* c and v have the same keys and the same values, but for the phoneset
\* and for the letter case of language, of the support_languages
\* entries, of the data of the styles, of pitch and of timing.
DiffersInCaseOrPhoneset(c, v) ==
  /\ Keys(c) = Keys(v)
  /\ \A k \in Range(Keys(c)) \ NormKeys : Get(c, k) = Get(v, k)
  /\ \A k \in {"language", "pitch", "timing"} :
        /\ HasString(c, k) /\ HasString(v, k)
        /\ EqualsIgnoreCase(Get(c, k).s, Get(v, k).s)
  /\ LET a == Get(c, "support_languages").a
         b == Get(v, "support_languages").a
     IN  /\ Len(a) = Len(b)
         /\ \A i \in 1..Len(a) : EqualsIgnoreCase(a[i].s, b[i].s)
  /\ LET a == Get(c, "styles").a
         b == Get(v, "styles").a
     IN  /\ Len(a) = Len(b)
         /\ \A i \in 1..Len(a) :
               /\ Keys(a[i]) = Keys(b[i])
               /\ \A k \in Range(Keys(a[i])) :
                     IF k = "data"
                     THEN EqualsIgnoreCase(Get(a[i], k).s, Get(b[i], k).s)
                     ELSE Get(a[i], k) = Get(b[i], k)

\* Configs validate accepts: validConfig() and versions of it in another
\* language, without styles, with other supported languages.
NormBases ==
  { v \in { ValidConfig,
            SetField(SetField(ValidConfig, "language", JStr(japanese)),
                     "phoneset", JStr(romaji)),
            SetField(SetField(ValidConfig, "language", JStr(mandarin)),
                     "phoneset", JStr(xsampa)),
            SetField(ValidConfig, "styles", JArr(<<>>)),
            SetField(ValidConfig, "styles", JArr(<<Style(Soft, Repeat("A", 256))>>)),
            SetField(ValidConfig, "styles",
                     JArr(<<Style(Power, Repeat("F", 256)), Style(Soft, Repeat("A", 256))>>)),
            SetField(ValidConfig, "support_languages", JArr(<<>>)),
            SetField(ValidConfig, "support_languages", JArr(<<JStr(english)>>)),
            SetField(ValidConfig, "support_languages",
                     JArr(<<JStr(english), JStr(spanish), JStr(japanese)>>)),
            SetField(ValidConfig, "pitch", JStr(Repeat("9", 256))) } :
      ValidateNofsData(v).v.errors = <<>> }

\* C23: normalize returns the normal form of its config; normalize of
\* the result returns the result; and the result of a config that
\* differs from a valid one only in letter case or phoneset has no
\* validate error.
C23_NormalizeCanonical ==
  /\ pc \in {"normalized", "twice", "normval"} => IsNormalFormOf(normOnce, normCfg)
  /\ pc \in {"twice", "normval"} => normTwice = normOnce
  /\ (pc = "normval" /\ \E v \in NormBases : DiffersInCaseOrPhoneset(normCfg, v))
       => normVal.ok /\ normVal.v.errors = <<>>

(***************************************************************************)
(* Vocabulary of the claim on repeated issues.                             *)
(***************************************************************************)
\* Two issues with the same message and the same path.
SameProblem(a, b) ==
  /\ Len(a.path) = Len(b.path)
  /\ a.path = b.path
  /\ Len(a.message) = Len(b.message)
  /\ a.message = b.message

\* The pairs of positions of errors that report the same problem.
RepeatedErrors ==
  {p \in (1..Len(Errors)) \X (1..Len(Errors)) :
     p[1] < p[2] /\ SameProblem(Errors[p[1]], Errors[p[2]])}

\* C24: no two of the errors validate returns have both the same message
\* and the same path.
C24_NoProblemReportedTwice ==
  (Returned /\ IsObject(valDoc)) => RepeatedErrors = {}

(***************************************************************************)
(* writeFile scenarios: one call of NofsJsonFileSystemProvider.writeFile   *)
(* on a file system that holds earlier backups.                            *)
(***************************************************************************)
NameA == <<"a">>
NameA1 == <<"a", "-", "1">>
NameB == <<"b">>
Version1 == <<"1">>
Version2 == <<"2">>

\* A document with this name and version.
SaveDoc(name, version) ==
  JObj(<< <<"name", JStr(name)>>, <<"version", JStr(version)>>,
          <<"vendor", JStr(TestVendor)>> >>)

\* The texts of the editor: documents of three voice banks; names that
\* sanitizeBackupName rewrites; comments and text around the object; no
\* name, a name that is not a string or is empty; roots that are not
\* objects; and texts JSON.parse rejects.
SaveTexts ==
  { JsonStringify(SaveDoc(NameA, Version1)),
    JsonStringify(SaveDoc(NameA1, Version2)),
    JsonStringify(SaveDoc(NameB, Version1)),
    JsonStringify(SaveDoc(<<"a", " ", "\t", "b">>, <<"1", ":", "0">>)),
    <<TComment, Ws>> \o Spaced(JsonStringify(SaveDoc(NameA, Version1))) \o <<Ws, TComment>>,
    <<TLit("null"), Ws>> \o JsonStringify(SaveDoc(NameA1, Version2)) \o <<P("}")>>,
    JsonStringify(JObj(<< <<"version", JStr(Version1)>> >>)),
    JsonStringify(JObj(<< <<"name", JNum(Fin(0, 1, 0))>>, <<"version", JStr(Version1)>> >>)),
    JsonStringify(JObj(<< <<"name", JStr(<<>>)>>, <<"version", JStr(Version1)>> >>)),
    <<P("["), P("]")>>,
    <<>>,
    <<P("{"), TStr("name"), P("}")>>,
    <<P("{"), TStr("name"), P(":"), TStr(NameA), P(","), P("}")>>,
    <<P("{"), P("{"), TStr("name"), P(":"), TStr(NameA), P("}")>> }

\* The settings getNofsSettings reads, and whether a workspace folder is
\* open.
SaveSettings ==
  { [useJsoncEditing |-> j, saveToProjectRoot |-> r, backupEnabled |-> b,
     backupMax |-> m, hasRoot |-> h] :
      j \in BOOLEAN, r \in BOOLEAN, b \in BOOLEAN,
      m \in {[finite |-> TRUE, n |-> 1]}, h \in {TRUE} }
    \cup
  { [useJsoncEditing |-> FALSE, saveToProjectRoot |-> FALSE, backupEnabled |-> TRUE,
     backupMax |-> m, hasRoot |-> TRUE] :
      m \in {[finite |-> TRUE, n |-> 0], [finite |-> TRUE, n |-> 2],
             [finite |-> TRUE, n |-> 11], [finite |-> FALSE, n |-> 0]} }
    \cup
  { [useJsoncEditing |-> TRUE, saveToProjectRoot |-> TRUE, backupEnabled |-> TRUE,
     backupMax |-> [finite |-> TRUE, n |-> 1], hasRoot |-> FALSE] }

\* The number of earlier backups a voice bank has at most.
NumStamps == 2

\* The date of the j-th second of a minute.
Stamp(j) ==
  [year |-> 2026, month |-> 0, date |-> 5, hours |-> 9, minutes |-> 7, seconds |-> j]

\* The backup maybeBackupNofsFile made at Stamp(j) for the voice bank
\* number p with this name and version.
EarlierBackup(name, version, p, j) ==
  [name |-> SanitizeBackupName(name) \o <<"-">> \o SanitizeBackupName(version)
              \o <<"-">> \o FormatTimestamp(Stamp(j)) \o DotNofs,
   isFile |-> TRUE, mtime |-> 3 * j + p, data |-> <<p, j>>,
   madeFor |-> <<name, version>>]

\* The backup directory: the first ka backups of (a, 1), the first kb of
\* (a-1, 2), one of (b, 1), and a directory.
EarlierBackups ==
  { {EarlierBackup(NameA, Version1, 2, j) : j \in 1..ka}
      \cup {EarlierBackup(NameA1, Version2, 1, j) : j \in 1..kb}
      \cup {EarlierBackup(NameB, Version1, 3, 1),
             [name |-> <<"a", "-", "1", "-">> \o DotNofs, isFile |-> FALSE, mtime |-> 0,
              data |-> <<>>, madeFor |-> <<<<>>, <<>>>>]} :
      ka \in 0..NumStamps, kb \in 0..NumStamps }

OldData == <<79, 76, 68>>

\* The files of the targets the text can be saved to, when they exist.
TargetFiles(rawText) ==
  LET meta == ParseNofsMeta(rawText)
  IN  {[path |-> OriginalPath, data |-> OldData]}
        \cup (IF Truthy(meta.name) /\ Truthy(meta.version)
              THEN {[path |-> ProjectPath(meta.name.s, meta.version.s), data |-> OldData]}
              ELSE {})

InitSave ==
  /\ pc = "save"
  /\ \E rawText \in SaveTexts, settings \in SaveSettings, exists \in BOOLEAN,
        backups \in EarlierBackups :
       /\ disk = [files |-> IF exists THEN TargetFiles(rawText) ELSE {},
                  dirs |-> {}, backups |-> backups, tick |-> 3 * NumStamps + 4]
       /\ saveIn = [rawText |-> rawText, settings |-> settings,
                    now |-> Stamp(NumStamps + 1), before |-> disk]
  /\ saveLoc = [encrypted |-> None, meta |-> None, target |-> None]
  /\ fsLog = <<>>
  /\ IdleCore /\ IdleNorm /\ IdleUi

\* const cleaned = prepareNofsJsonText(rawText); const encrypted =
\* encryptJsonToNofs(cleaned); a throw ends the call in the catch block.
SaveEncrypt ==
  /\ pc = "save"
  /\ \E iv \in IVs :
       LET encrypted == EncryptJsonToNofs(PrepareNofsJsonText(saveIn.rawText), iv)
       IN  /\ saveLoc' = [saveLoc EXCEPT !.encrypted = encrypted]
           /\ pc' = AfterEncrypt(encrypted)
  /\ UNCHANGED <<saveIn, disk, fsLog, coreVars, normVars, uiVars>>

\* const meta = parseNofsMeta(rawText); const target = await
\* resolveSaveTarget(original, meta, settings).
SaveResolveTarget ==
  /\ pc = "save_encrypted"
  /\ LET meta == ParseNofsMeta(saveIn.rawText)
         resolved == ResolveSaveTarget(meta, saveIn.settings, saveIn.settings.hasRoot)
     IN  IF ~resolved.ok
         THEN /\ pc' = "save_failed"
              /\ saveLoc' = [saveLoc EXCEPT !.meta = meta]
              /\ UNCHANGED <<disk, fsLog>>
         ELSE /\ pc' = "save_target"
              /\ saveLoc' = [saveLoc EXCEPT !.meta = meta, !.target = resolved.v.target]
              /\ disk' = [disk EXCEPT !.dirs = @ \cup resolved.v.made]
              /\ fsLog' = IF resolved.v.made = {} THEN fsLog
                          ELSE Append(fsLog, [op |-> "mkdir",
                                              path |-> ProjectDir(meta.name.s)])
  /\ UNCHANGED <<saveIn, coreVars, normVars, uiVars>>

\* await maybeBackupNofsFile(target.fsPath, meta, { enabled, maxCount, dir }).
SaveBackup ==
  /\ pc = "save_target"
  /\ LET after == MaybeBackupNofsFile(disk, fsLog, saveLoc.target, saveLoc.meta,
                     [enabled |-> saveIn.settings.backupEnabled,
                      maxCount |-> saveIn.settings.backupMax],
                     saveIn.now)
     IN  /\ disk' = after.disk
         /\ fsLog' = after.log
  /\ pc' = "save_backed"
  /\ UNCHANGED <<saveIn, saveLoc, coreVars, normVars, uiVars>>

\* await vscode.workspace.fs.writeFile(target, encrypted).
SaveWriteTarget ==
  /\ pc = "save_backed"
  /\ disk' = FsWrite(disk, saveLoc.target,
                     IF saveLoc.encrypted.ok THEN saveLoc.encrypted.v ELSE <<>>)
  /\ fsLog' = Append(fsLog, [op |-> "writeFile", path |-> saveLoc.target])
  /\ pc' = IF saveIn.settings.useJsoncEditing THEN "save_written" ELSE "save_done"
  /\ UNCHANGED <<saveIn, saveLoc, coreVars, normVars, uiVars>>

\* await vscode.workspace.fs.writeFile(jsoncPath, formatJsoncText(rawText)).
SaveWriteJsonc ==
  /\ pc = "save_written"
  /\ disk' = FsWrite(disk, JsoncPath(saveLoc.target), saveIn.rawText)
  /\ fsLog' = Append(fsLog, [op |-> "writeFile", path |-> JsoncPath(saveLoc.target)])
  /\ pc' = "save_done"
  /\ UNCHANGED <<saveIn, saveLoc, coreVars, normVars, uiVars>>

NextSave ==
  SaveEncrypt \/ SaveResolveTarget \/ SaveBackup \/ SaveWriteTarget \/ SaveWriteJsonc

SpecSave == InitSave /\ [][NextSave]_vars

(***************************************************************************)
(* Vocabulary of the writeFile claims.                                     *)
(***************************************************************************)
\* writeFile has been called and has passed encryptJsonToNofs.
SavePastEncrypt ==
  pc \in {"save_encrypted", "save_target", "save_backed", "save_written",
          "save_done", "save_failed"}

\* The positions in the log of the operations op.
LogOf(op) == {i \in 1..Len(fsLog) : fsLog[i].op = op}

\* The positions in the log of the writes of the target and of the
\* companion .jsonc.
TargetWrites == {i \in LogOf("writeFile") : fsLog[i].path.k # "jsonc"}
JsoncWrites == {i \in LogOf("writeFile") : fsLog[i].path.k = "jsonc"}

\* The call makes a backup: backups are enabled, the text has a name and
\* a version, and the target exists.
BackupDue ==
  /\ saveIn.settings.backupEnabled
  /\ Truthy(saveLoc.meta.name) /\ Truthy(saveLoc.meta.version)
  /\ FsExists(saveIn.before, saveLoc.target)

\* C25: writeFile changes nothing in the file system before the text is
\* encrypted; when encryption fails no backup is made and neither the
\* target nor the companion .jsonc is written; when the call succeeds and
\* a backup is due, the copy holds the target as it was and is taken
\* before the target is written; the companion .jsonc is written only
\* after the target.
C25_EncryptThenBackupThenWrite ==
  /\ pc = "save" => (fsLog = <<>> /\ disk = saveIn.before)
  /\ SavePastEncrypt =>
       /\ ~saveLoc.encrypted.ok => (fsLog = <<>> /\ disk = saveIn.before)
       /\ \A i \in LogOf("copyFile") : \A j \in TargetWrites : i < j
       /\ \A i \in LogOf("copyFile") :
            \E e \in disk.backups :
              /\ e.name = fsLog[i].path.file
              /\ e.data = FsRead(saveIn.before, saveLoc.target)
       /\ \A i \in JsoncWrites : \E j \in TargetWrites : j < i
       /\ Cardinality(TargetWrites) <= 1 /\ Cardinality(JsoncWrites) <= 1
  /\ pc = "save_done" =>
       /\ saveLoc.encrypted.ok
       /\ Cardinality(TargetWrites) = 1
       /\ FsRead(disk, saveLoc.target) = saveLoc.encrypted.v
       /\ BackupDue => Cardinality(LogOf("copyFile")) = 1
       /\ saveIn.settings.useJsoncEditing => Cardinality(JsoncWrites) = 1

C25_Witness ==
  /\ pc = "save_done"
  /\ saveIn.rawText = JsonStringify(SaveDoc(NameA, Version1))
  /\ BackupDue
  /\ Len(fsLog) = 4
  /\ fsLog[1].op = "mkdir" /\ fsLog[2].op = "copyFile"
  /\ fsLog[3].op = "writeFile" /\ fsLog[3].path = OriginalPath
  /\ fsLog[4].op = "writeFile" /\ fsLog[4].path = JsoncPath(OriginalPath)

\* maybeBackupNofsFile has completed in the call.
BackupCompleted == pc \in {"save_backed", "save_written", "save_done"}

\* The name and version of the text saved.
SavedPair == <<saveLoc.meta.name.s, saveLoc.meta.version.s>>

\* The backups the call deleted, and those made for the pair that remain.
DeletedBackups == {e \in saveIn.before.backups : e \notin disk.backups}
BackupsMadeFor(pair) == {e \in disk.backups : e.isFile /\ e.madeFor = pair}

\* C26: after maybeBackupNofsFile the backups deleted were all made for
\* the name and version saved and are older than those that remain, at
\* most maxCount (clamped to 1..10) backups of that name and version
\* remain, and no backup made for another name and version is deleted.
C26_PruneOnlyOwnBackups ==
  BackupCompleted =>
    /\ ~BackupDue => DeletedBackups = {}
    /\ BackupDue =>
         /\ \A e \in DeletedBackups :
              /\ e.madeFor = SavedPair
              /\ \A f \in BackupsMadeFor(SavedPair) : e.mtime < f.mtime
         /\ Cardinality(BackupsMadeFor(SavedPair))
              <= Clamp(saveIn.settings.backupMax, 1, 10)

(***************************************************************************)
(* The mixer session: MixerSessionStore (sessionStore.ts), the handler of  *)
(* the webview's messages and MixerController (extension.ts), and the      *)
(* mixer webview (webview/mixer/main.ts).  A mixer state, a tab and a      *)
(* channel are JSON values; a message is a record with a field type.       *)
(***************************************************************************)
DEFAULT_TAB_ID == <<"t", "a", "b", "-", "1">>

Hundred == Fin(0, 100, 0)

\* The tab literal of DEFAULT_MIXER_STATE, of the add-tab handler and of
\* the fallback of getActiveTab: no name, no channels, bus at 100.
EmptyTab(id) ==
  JObj(<< <<"id", JStr(id)>>,
          <<"name", JStr(<<>>)>>,
          <<"outputName", JStr(<<>>)>>,
          <<"busPercent", JNum(Hundred)>>,
          <<"channels", JArr(<<>>)>> >>)

DEFAULT_MIXER_STATE ==
  JObj(<< <<"activeTabId", JStr(DEFAULT_TAB_ID)>>,
          <<"tabs", JArr(<<EmptyTab(DEFAULT_TAB_ID)>>)>> >>)

\* ToNumber of undefined, null, a boolean or a number (the kinds of value
\* the scenarios give a weight).
ToNumber(v) ==
  CASE v.t = "num" -> v.n
    [] v.t = "null" -> Fin(0, 0, 0)
    [] v.t = "bool" -> IF v.b THEN Fin(0, 1, 0) ELSE Fin(0, 0, 0)
    [] OTHER -> NaN

\* The value of a finite Number that is an integer.
NumValue(x) == (IF x.s = 1 THEN -1 ELSE 1) * x.m * 2^(x.e)

\* x < y for Numbers other than NaN (finite ones being integers).
NumLess(x, y) ==
  CASE x.k = "inf" -> x.s = 1 /\ ~(y.k = "inf" /\ y.s = 1)
    [] y.k = "inf" -> y.s = 0
    [] OTHER -> NumValue(x) < NumValue(y)

MathMax(x, y) ==
  IF x.k = "nan" \/ y.k = "nan" THEN NaN ELSE IF NumLess(x, y) THEN y ELSE x

MathMin(x, y) ==
  IF x.k = "nan" \/ y.k = "nan" THEN NaN ELSE IF NumLess(y, x) THEN y ELSE x

\* sessionStore.ts: clamp.
SessionClamp(value, min, max) == MathMin(max, MathMax(min, value))

\* The identifier createFallbackId or createId returns at position k of
\* a call, ids giving the identifiers the clock and Math.random produce.
IdAt(ids, k) == IF k \in DOMAIN ids THEN ids[k] ELSE <<>>

StringOr(v, default) == IF IsString(v) THEN v ELSE JStr(default)

\* sanitizeTab(tab): reading a property of null or undefined throws.
SanitizeTab(tab, i, ids) ==
  IF tab.t \in {"null", "undefined"} THEN Throw("TypeError")
  ELSE
    LET busPercent == Prop(tab, "busPercent")
        bus == IF busPercent.t = "num" /\ IsFinite(busPercent.n)
               THEN busPercent.n ELSE Hundred
        tabChannels == Prop(tab, "channels")
        channels == IF IsArray(tabChannels) THEN tabChannels.a ELSE <<>>
    IN  IF \E j \in 1..Len(channels) : channels[j].t \in {"null", "undefined"}
        THEN Throw("TypeError")
        ELSE Ok(JObj(<<
          <<"id", StringOr(Prop(tab, "id"), IdAt(ids.tab, i))>>,
          <<"name", StringOr(Prop(tab, "name"), <<>>)>>,
          <<"outputName", StringOr(Prop(tab, "outputName"), <<>>)>>,
          <<"busPercent", JNum(SessionClamp(bus, Fin(0, 0, 0), Fin(0, 500, 0)))>>,
          <<"channels", JArr([j \in 1..Len(channels) |->
              JObj(<<
                <<"id", StringOr(Prop(channels[j], "id"), IdAt(ids.ch, <<i, j>>))>>,
                <<"name", StringOr(Prop(channels[j], "name"), <<>>)>>,
                <<"hex", StringOr(Prop(channels[j], "hex"), <<>>)>>,
                <<"weight", JNum(SessionClamp(ToNumber(Prop(channels[j], "weight")),
                                              Fin(1, 100, 0), Hundred))>>,
                <<"source", Prop(channels[j], "source")>> >>)])>> >>))

TabsOf(state) ==
  LET stateTabs == Prop(state, "tabs")
  IN  IF IsArray(stateTabs) THEN stateTabs.a ELSE <<>>

TabIdOf(tab) == Prop(tab, "id")

\* sanitizeState(state).
SanitizeState(state, ids) ==
  LET raw == TabsOf(state)
      results == [i \in 1..Len(raw) |-> SanitizeTab(raw[i], i, ids)]
  IN  IF \E i \in 1..Len(raw) : ~results[i].ok THEN Throw("TypeError")
      ELSE
        LET tabs == [i \in 1..Len(raw) |-> results[i].v]
            nextTabs == IF Len(tabs) > 0 THEN tabs ELSE <<EmptyTab(DEFAULT_TAB_ID)>>
            active == StringOr(Prop(state, "activeTabId"), DEFAULT_TAB_ID)
            activeTabId ==
              IF \E i \in 1..Len(nextTabs) : TabIdOf(nextTabs[i]) = active
              THEN active ELSE TabIdOf(nextTabs[1])
        IN  Ok(JObj(<< <<"activeTabId", activeTabId>>, <<"tabs", JArr(nextTabs)>> >>))

\* MixerSessionStore.get(), stored being what the memento holds.
SessionGet(stored, ids) ==
  IF ~Truthy(stored) \/ ~TypeofObject(stored) THEN Ok(DEFAULT_MIXER_STATE)
  ELSE SanitizeState(stored, ids)

\* The identifiers createFallbackId may return.
FallbackIds == {<<"f", "1">>, <<"f", "2">>}

\* The tabs and the channels of state that sanitizeTab gives a fallback
\* identifier, and every way of drawing those identifiers.
NeedsTabId(state) ==
  {i \in 1..Len(TabsOf(state)) : ~IsString(Prop(TabsOf(state)[i], "id"))}

NeedsChannelId(state) ==
  UNION { LET tabChannels == Prop(TabsOf(state)[i], "channels")
          IN  IF IsArray(tabChannels)
              THEN {<<i, j>> : j \in {k \in 1..Len(tabChannels.a) :
                                        ~IsString(Prop(tabChannels.a[k], "id"))}}
              ELSE {} : i \in 1..Len(TabsOf(state)) }

FreshIds(state) ==
  { [tab |-> f, ch |-> g] : f \in [NeedsTabId(state) -> FallbackIds],
                            g \in [NeedsChannelId(state) -> FallbackIds] }

\* The webview's state before the extension's first message.
Placeholder ==
  JObj(<< <<"activeTabId", JStr(<<>>)>>, <<"tabs", JArr(<<>>)>> >>)

\* The add-tab handler's next state: { ...state, tabs, activeTabId }.
WithNewTab(state, id) ==
  CreateDataProperty(
    CreateDataProperty(state, "tabs", JArr(Append(TabsOf(state), EmptyTab(id)))),
    "activeTabId", JStr(id))

\* findIndex: the first index (from 1) of a tab of that id, 0 for none.
FindTabIndex(tabs, tabId) ==
  IF \E i \in 1..Len(tabs) : TabIdOf(tabs[i]) = tabId
  THEN CHOOSE i \in 1..Len(tabs) :
         /\ TabIdOf(tabs[i]) = tabId
         /\ \A k \in 1..(i - 1) : TabIdOf(tabs[k]) # tabId
  ELSE 0

\* removeTab(tabId): "return" (nothing done), "update" (updateState is
\* called with state) or "throw" (nextTabs[0] is undefined when every
\* tab had the identifier).
RemoveTab(state, tabId) ==
  LET tabs == TabsOf(state)
      index == FindTabIndex(tabs, tabId)
      nextTabs == SelectSeq(tabs, LAMBDA tab : TabIdOf(tab) # tabId)
      at == IF index <= Len(nextTabs) THEN index ELSE Len(nextTabs)
  IN  IF Len(tabs) <= 1 THEN [kind |-> "return", state |-> state]
      ELSE IF index = 0 THEN [kind |-> "return", state |-> state]
      ELSE IF Prop(state, "activeTabId") = tabId /\ Len(nextTabs) = 0
           THEN [kind |-> "throw", state |-> state]
      ELSE [kind |-> "update",
            state |-> CreateDataProperty(
                        CreateDataProperty(state, "tabs", JArr(nextTabs)),
                        "activeTabId",
                        IF Prop(state, "activeTabId") = tabId
                        THEN TabIdOf(nextTabs[at])
                        ELSE Prop(state, "activeTabId"))]

(***************************************************************************)
(* Mixer tabs scenarios: the memento holds an arbitrary value, the webview *)
(* has posted mixer/ready, and the user adds, selects and closes tabs      *)
(* while the extension answers mixer/ready and stores each mixer/state.    *)
(***************************************************************************)
MaxTabs == 2
MaxInFlight == 1

IdA == JStr(<<"a">>)
IdB == JStr(<<"b">>)
IdC == JStr(<<"c">>)

StoredChannel ==
  JObj(<< <<"id", IdC>>, <<"name", JStr(<<"S">>)>>, <<"hex", JStr(Hex8HalfUpper)>>,
          <<"weight", JNum(Fin(0, 150, 0))>> >>)

\* What the memento may hold for a tab: a whole tab, a tab of an id only,
\* and a tab with a number for id, a NaN bus and a channel without id.
StoredTabA ==
  JObj(<< <<"id", IdA>>, <<"name", JStr(<<"T">>)>>, <<"outputName", JStr(<<>>)>>,
          <<"busPercent", JNum(Fin(0, 50, 0))>>,
          <<"channels", JArr(<<StoredChannel>>)>> >>)

StoredTabB == JObj(<< <<"id", IdB>> >>)

StoredTabNoId ==
  JObj(<< <<"id", JNum(Fin(0, 7, 0))>>, <<"busPercent", JNum(NaN)>>,
          <<"channels", JArr(<<JObj(<< <<"weight", JNull>> >>)>>)>> >>)

\* What it may hold for tabs: nothing, a string, and arrays of tabs, of
\* tabs of one id, of tabs without id, of a number and of null.
StoredTabLists ==
  { <<>>,
    << <<"tabs", JStr(<<"a">>)>> >>,
    << <<"tabs", JArr(<<>>)>> >>,
    << <<"tabs", JArr(<<StoredTabA>>)>> >>,
    << <<"tabs", JArr(<<StoredTabA, StoredTabB>>)>> >>,
    << <<"tabs", JArr(<<StoredTabA, StoredTabA>>)>> >>,
    << <<"tabs", JArr(<<StoredTabA, StoredTabA, StoredTabB>>)>> >>,
    << <<"tabs", JArr(<<StoredTabNoId>>)>> >>,
    << <<"tabs", JArr(<<StoredTabNoId, StoredTabNoId>>)>> >>,
    << <<"tabs", JArr(<<JNum(Fin(0, 7, 0)), StoredTabB>>)>> >>,
    << <<"tabs", JArr(<<StoredTabA, JNull>>)>> >> }

StoredActive ==
  { <<>>,
    << <<"activeTabId", JNum(Fin(0, 1, 0))>> >>,
    << <<"activeTabId", IdA>> >>,
    << <<"activeTabId", IdC>> >> }

StoredValues ==
  { Undefined, JNull, JNum(Fin(0, 7, 0)), JStr(<<"a">>), JArr(<<>>) }
  \cup { JObj(active \o tabs) : active \in StoredActive, tabs \in StoredTabLists }

\* The identifiers createId may return in the webview.
NewIds == {<<"n", "1">>, <<"n", "2">>}

InitTabs ==
  /\ pc = "tabs"
  /\ memento \in StoredValues
  /\ wvState = Placeholder
  /\ toExt = << [type |-> "mixer/ready"] >>
  /\ toView = <<>>
  /\ tabOp = None
  /\ addLoc = None
  /\ IdleCore /\ IdleNorm /\ IdleSave /\ IdleOut /\ IdleFix

\* updateState(next) in the webview: state = next, render() (which draws
\* and leaves state alone), commitState().
UpdateState(next) ==
  /\ wvState' = next
  /\ toExt' = Append(toExt, [type |-> "mixer/state", state |-> next])

\* extension.ts, case "mixer/ready": post mixer/init with sessionStore.get()
\* and then mixer/editor-state; a get that throws ends the handler.
OnReady ==
  /\ pc = "tabs"
  /\ toExt # <<>> /\ Head(toExt).type = "mixer/ready"
  /\ \E ids \in FreshIds(memento), canExport \in BOOLEAN :
       LET got == SessionGet(memento, ids)
       IN  /\ toView' = IF got.ok
                        THEN toView \o << [type |-> "mixer/init", state |-> got.v],
                                          [type |-> "mixer/editor-state",
                                           canExport |-> canExport] >>
                        ELSE toView
           /\ tabOp' = [op |-> "get", result |-> got]
  /\ toExt' = Tail(toExt)
  /\ UNCHANGED <<pc, memento, wvState, addLoc, coreVars, normVars, saveVars, outVars, fixVars>>

\* extension.ts, case "mixer/state": await sessionStore.set(message.state).
OnStateMessage ==
  /\ pc \in {"tabs", "race"}
  /\ toExt # <<>> /\ Head(toExt).type = "mixer/state"
  /\ \E ids \in FreshIds(Head(toExt).state) :
       LET sanitized == SanitizeState(Head(toExt).state, ids)
       IN  /\ memento' = IF sanitized.ok THEN sanitized.v ELSE memento
           /\ tabOp' = [op |-> "set", result |-> sanitized]
  /\ toExt' = Tail(toExt)
  /\ UNCHANGED <<pc, wvState, toView, addLoc, coreVars, normVars, saveVars, outVars, fixVars>>

\* The webview's message handler: mixer/init and mixer/state replace
\* state; mixer/editor-state sets canExport, which is not state.
OnViewMessage ==
  /\ pc \in {"tabs", "race"}
  /\ toView # <<>>
  /\ wvState' = IF Head(toView).type \in {"mixer/init", "mixer/state"}
                THEN Head(toView).state ELSE wvState
  /\ toView' = Tail(toView)
  /\ tabOp' = [op |-> "message", type |-> Head(toView).type]
  /\ UNCHANGED <<pc, memento, toExt, addLoc, coreVars, normVars, saveVars, outVars, fixVars>>

\* The click handler of the add-tab button.
AddTab ==
  /\ pc = "tabs"
  /\ Len(TabsOf(wvState)) < MaxTabs
  /\ Len(toExt) < MaxInFlight
  /\ \E id \in NewIds :
       /\ UpdateState(WithNewTab(wvState, id))
       /\ tabOp' = [op |-> "add", before |-> wvState, id |-> JStr(id)]
  /\ UNCHANGED <<pc, memento, toView, addLoc, coreVars, normVars, saveVars, outVars, fixVars>>

\* The click handler of a tab button, the click being on its label: the
\* tab becomes the active one unless it is already.
SelectTab ==
  /\ pc = "tabs"
  /\ Len(toExt) < MaxInFlight
  /\ \E i \in 1..Len(TabsOf(wvState)) :
       LET tab == TabsOf(wvState)[i]
       IN  /\ IF TabIdOf(tab) = Prop(wvState, "activeTabId")
              THEN UNCHANGED <<wvState, toExt>>
              ELSE UpdateState(CreateDataProperty(wvState, "activeTabId", TabIdOf(tab)))
           /\ tabOp' = [op |-> "select", before |-> wvState, tabId |-> TabIdOf(tab)]
  /\ UNCHANGED <<pc, memento, toView, addLoc, coreVars, normVars, saveVars, outVars, fixVars>>

\* The click handler of a tab button, the click being on its close mark:
\* nothing when the tab is the only one, else removeTab(tab.id).
CloseTab ==
  /\ pc = "tabs"
  /\ Len(toExt) < MaxInFlight
  /\ \E i \in 1..Len(TabsOf(wvState)) :
       LET tab == TabsOf(wvState)[i]
           removed == IF Len(TabsOf(wvState)) <= 1
                      THEN [kind |-> "return", state |-> wvState]
                      ELSE RemoveTab(wvState, TabIdOf(tab))
       IN  /\ IF removed.kind = "update"
              THEN UpdateState(removed.state)
              ELSE UNCHANGED <<wvState, toExt>>
           /\ tabOp' = [op |-> "close", before |-> wvState, tabId |-> TabIdOf(tab),
                        kind |-> removed.kind]
  /\ UNCHANGED <<pc, memento, toView, addLoc, coreVars, normVars, saveVars, outVars, fixVars>>

NextTabs ==
  OnReady \/ OnStateMessage \/ OnViewMessage \/ AddTab \/ SelectTab \/ CloseTab

SpecTabs == InitTabs /\ [][NextTabs]_vars

\* state is a mixer state with at least one tab whose activeTabId is the
\* id of one of its tabs.
HasActiveTab(state) ==
  /\ state.t = "obj"
  /\ IsArray(Prop(state, "tabs"))
  /\ Len(TabsOf(state)) >= 1
  /\ IsString(Prop(state, "activeTabId"))
  /\ \E i \in 1..Len(TabsOf(state)) :
       TabIdOf(TabsOf(state)[i]) = Prop(state, "activeTabId")

\* What holds of closing a tab: a click on the close mark of the only tab
\* changes nothing, a close that is refused or throws leaves the state as
\* it was, and after a close the tabs are those that did not have the
\* closed tab's id, the active tab is one of them, and it is the one that
\* was active unless that one was closed.
CloseKeepsAnActiveTab ==
  tabOp # None /\ tabOp.op = "close" =>
    /\ Len(TabsOf(tabOp.before)) <= 1 => tabOp.kind = "return"
    /\ tabOp.kind # "update" => wvState = tabOp.before
    /\ tabOp.kind = "update" =>
         /\ TabsOf(wvState)
              = SelectSeq(TabsOf(tabOp.before),
                          LAMBDA tab : TabIdOf(tab) # tabOp.tabId)
         /\ HasActiveTab(wvState)
         /\ Prop(tabOp.before, "activeTabId") # tabOp.tabId
              => Prop(wvState, "activeTabId") = Prop(tabOp.before, "activeTabId")

\* Every state a message carries has an active tab.
MessagesCarryAnActiveTab ==
  /\ \A k \in 1..Len(toView) :
       toView[k].type = "mixer/init" => HasActiveTab(toView[k].state)
  /\ \A k \in 1..Len(toExt) :
       toExt[k].type = "mixer/state" => HasActiveTab(toExt[k].state)

\* C27: after any sequence of mixer operations the mixer state has at
\* least one tab and an activeTabId that is the id of one of its tabs:
\* get returns such a state and set stores one whatever the memento held,
\* every message carries one, and the webview holds one once the
\* operations performed so far have been handled; a click on the close
\* mark of the only tab changes nothing, and after the active tab was
\* closed the active tab is one of the remaining tabs.
C27_TabsKeepAnActiveTab ==
  pc = "tabs" =>
    /\ tabOp # None /\ tabOp.op \in {"get", "set"}
         => tabOp.result.ok /\ HasActiveTab(tabOp.result.v)
    /\ tabOp # None /\ tabOp.op = "set" => memento = tabOp.result.v
    /\ MessagesCarryAnActiveTab
    /\ tabOp # None /\ toExt = <<>> /\ toView = <<>> => HasActiveTab(wvState)
    /\ CloseKeepsAnActiveTab

\* The same with a get that may throw, and a webview that keeps its
\* first state, which has no tab, until a message or a click replaces it.
TabsKeepAnActiveTabUnlessGetThrows ==
  pc = "tabs" =>
    /\ tabOp # None /\ tabOp.op \in {"get", "set"} /\ tabOp.result.ok
         => HasActiveTab(tabOp.result.v)
    /\ tabOp # None /\ tabOp.op = "set"
         => tabOp.result.ok /\ memento = tabOp.result.v
    /\ MessagesCarryAnActiveTab
    /\ wvState = Placeholder \/ HasActiveTab(wvState)
    /\ tabOp # None /\ tabOp.op = "get" /\ ~tabOp.result.ok
         => \E i \in 1..Len(TabsOf(memento)) : TabsOf(memento)[i].t = "null"
    /\ CloseKeepsAnActiveTab

\* The active tab of a webview showing several tabs has just been closed.
ActiveTabClosed ==
  /\ pc = "tabs"
  /\ tabOp # None /\ tabOp.op = "close" /\ tabOp.kind = "update"
  /\ Prop(tabOp.before, "activeTabId") = tabOp.tabId
  /\ HasActiveTab(wvState)
  /\ Len(toExt) = 1

(***************************************************************************)
(* MixerController.addChannel against the webview: the webview holds the   *)
(* session it was sent, the user moves the weight sliders of the active    *)
(* tab and releases them, and the extension adds channels.                 *)
(***************************************************************************)
\* extension.ts: getActiveTab(state), index counted from 1; id is what
\* createId returns for the fallback tab.
ExtGetActiveTab(state, id) ==
  LET tabs == TabsOf(state)
      index == FindTabIndex(tabs, Prop(state, "activeTabId"))
  IN  IF ~Truthy(Prop(state, "tabs")) \/ Len(tabs) = 0
      THEN [tab |-> EmptyTab(id), index |-> 1]
      ELSE IF index >= 1 THEN [tab |-> tabs[index], index |-> index]
      ELSE [tab |-> tabs[1], index |-> 1]

ChannelsOf(tab) ==
  LET tabChannels == Prop(tab, "channels")
  IN  IF IsArray(tabChannels) THEN tabChannels.a ELSE <<>>

\* The nextState of addChannel(name, hex, source) for the state get()
\* returned, id being the new channel's.
WithNewChannel(state, id, name, hex, source) ==
  LET active == ExtGetActiveTab(state, id)
      channel == JObj(<< <<"id", JStr(id)>>, <<"name", JStr(name)>>,
                         <<"hex", JStr(hex)>>, <<"weight", JNum(Fin(0, 0, 0))>>,
                         <<"source", source>> >>)
      nextTab == CreateDataProperty(active.tab, "channels",
                                    JArr(Append(ChannelsOf(active.tab), channel)))
  IN  CreateDataProperty(state, "tabs",
        JArr([idx \in 1..Len(TabsOf(state)) |->
                IF idx = active.index THEN nextTab ELSE TabsOf(state)[idx]]))

\* The webview's getActiveTab(): the tab of activeTabId, else the first
\* tab, else undefined.
ViewActiveTab(state) ==
  LET tabs == TabsOf(state)
      index == FindTabIndex(tabs, Prop(state, "activeTabId"))
  IN  IF index >= 1 THEN tabs[index]
      ELSE IF Len(tabs) >= 1 THEN tabs[1]
      ELSE Undefined

\* The state updateChannelWeightLocal(id, weight) assigns.
WithChannelWeight(state, id, weight) ==
  LET tab == ViewActiveTab(state)
      channels == [j \in 1..Len(ChannelsOf(tab)) |->
                     IF Prop(ChannelsOf(tab)[j], "id") = id
                     THEN CreateDataProperty(ChannelsOf(tab)[j], "weight", JNum(weight))
                     ELSE ChannelsOf(tab)[j]]
      nextTab == CreateDataProperty(tab, "channels", JArr(channels))
  IN  IF tab.t = "undefined" THEN state
      ELSE CreateDataProperty(state, "tabs",
             JArr([k \in 1..Len(TabsOf(state)) |->
                     IF TabIdOf(TabsOf(state)[k]) = TabIdOf(tab)
                     THEN nextTab ELSE TabsOf(state)[k]]))

MaxAdds == 1

\* The positions a slider is moved to.
SliderWeights == {Fin(1, 100, 0), Fin(0, 50, 0)}

NoIds == [tab |-> <<>>, ch |-> <<>>]

\* The sessions the scenarios start from: what get() returns for a
\* stored tab with a channel, for two tabs with the first or the second
\* active, and for nothing stored.
RaceSessions ==
  { SessionGet(stored, NoIds).v :
      stored \in { Undefined,
                   JObj(<< <<"activeTabId", IdA>>, <<"tabs", JArr(<<StoredTabA>>)>> >>),
                   JObj(<< <<"activeTabId", IdA>>,
                           <<"tabs", JArr(<<StoredTabA, StoredTabB>>)>> >>),
                   JObj(<< <<"activeTabId", IdB>>,
                           <<"tabs", JArr(<<StoredTabA, StoredTabB>>)>> >>) } }

RECURSIVE TotalLen(_)
TotalLen(seqs) ==
  IF seqs = <<>> THEN 0 ELSE Len(Head(seqs)) + TotalLen(Tail(seqs))

\* The number of channels of a mixer state.
ChannelCount(state) ==
  TotalLen([i \in 1..Len(TabsOf(state)) |-> ChannelsOf(TabsOf(state)[i])])

InitRace ==
  /\ pc = "race"
  /\ memento \in RaceSessions
  /\ wvState = memento
  /\ toExt = <<>>
  /\ toView = <<>>
  /\ tabOp = None
  /\ addLoc = [stage |-> "idle", nextState |-> None, added |-> 0,
               start |-> ChannelCount(memento)]
  /\ IdleCore /\ IdleNorm /\ IdleSave /\ IdleOut /\ IdleFix

\* addChannel up to its await: get(), the new channel appended to the
\* active tab, and sessionStore.set(nextState), whose memento.update is
\* called before the promise is awaited.
AddChannelStore ==
  /\ pc = "race"
  /\ addLoc.stage = "idle"
  /\ addLoc.added < MaxAdds
  /\ \E id \in NewIds, ids \in FreshIds(memento) :
       LET state == SessionGet(memento, ids).v
           nextState == WithNewChannel(state, id, <<"N">>, Hex8HalfLower, Undefined)
           sanitized == SanitizeState(nextState, NoIds)
       IN  /\ memento' = sanitized.v
           /\ addLoc' = [addLoc EXCEPT !.stage = "awaiting", !.nextState = nextState]
  /\ UNCHANGED <<pc, wvState, toExt, toView, tabOp, coreVars, normVars, saveVars, outVars, fixVars>>

\* addChannel after its await: post mixer/state with nextState.
AddChannelPost ==
  /\ pc = "race"
  /\ addLoc.stage = "awaiting"
  /\ toView' = Append(toView, [type |-> "mixer/state", state |-> addLoc.nextState])
  /\ addLoc' = [addLoc EXCEPT !.stage = "idle", !.nextState = None,
                              !.added = addLoc.added + 1]
  /\ UNCHANGED <<pc, memento, wvState, toExt, tabOp, coreVars, normVars, saveVars, outVars, fixVars>>

\* The input handler of a channel's slider: updateChannelWeightLocal,
\* which changes state and posts nothing.
SliderInput ==
  /\ pc = "race"
  /\ ViewActiveTab(wvState).t # "undefined"
  /\ \E j \in 1..Len(ChannelsOf(ViewActiveTab(wvState))), weight \in SliderWeights :
       wvState' = WithChannelWeight(
                    wvState, Prop(ChannelsOf(ViewActiveTab(wvState))[j], "id"), weight)
  /\ UNCHANGED <<pc, memento, toExt, toView, tabOp, addLoc, coreVars, normVars, saveVars, outVars, fixVars>>

\* The change handler of a channel's slider: commitState().
SliderChange ==
  /\ pc = "race"
  /\ ViewActiveTab(wvState).t # "undefined"
  /\ ChannelsOf(ViewActiveTab(wvState)) # <<>>
  /\ Len(toExt) < MaxInFlight
  /\ toExt' = Append(toExt, [type |-> "mixer/state", state |-> wvState])
  /\ UNCHANGED <<pc, memento, wvState, toView, tabOp, addLoc, coreVars, normVars, saveVars, outVars, fixVars>>

NextRace ==
  \/ AddChannelStore \/ AddChannelPost \/ SliderInput \/ SliderChange
  \/ OnStateMessage \/ OnViewMessage

SpecRace == InitRace /\ [][NextRace]_vars

\* C28: once addChannel has returned and every message posted by the
\* webview and by the extension has been handled, the stored session
\* holds every channel it held at the start and every channel added.
C28_AddedChannelIsStored ==
  pc = "race" /\ addLoc.stage = "idle" /\ toExt = <<>> /\ toView = <<>>
    => ChannelCount(memento) = addLoc.start + addLoc.added

(***************************************************************************)
(* The mixer webview's computeOutputVector, with applyBus (math.ts).       *)
(***************************************************************************)
\* x / 100 for NaN, an infinity and a finite x that is a multiple of 25
\* times a power of two, where the quotient is exact; no value is
\* defined for any other x.
DivBy100(x) ==
  CASE x.k = "nan" -> NaN
    [] x.k = "inf" -> x
    [] OTHER -> Fin(x.s, CHOOSE q \in 0..x.m : 25 * q = x.m, x.e - 2)

\* applyBus(vec, busPercent).
ApplyBus(vec, busPercent, nanBytes) ==
  LET scale == DivBy100(busPercent)
  IN  [i \in 1..Len(vec) |->
        NumberToF32Bytes(NumMul(F32BytesToNumber(vec[i]), scale), nanBytes)]

\* hexToVec32(channel.hex) for any value of channel.hex: the test of
\* HEX_RE_256 fails for a value that is not a string of 256 hex digits.
DecodeChannel(channel, nanBytes) ==
  IF IsString(Prop(channel, "hex"))
  THEN HexToVec32(Prop(channel, "hex").s, nanBytes)
  ELSE Throw("Expected 256 hex characters.")

\* `Invalid hex for ${channel.name || "channel"}.`
InvalidHexMessage(channel) ==
  << "Invalid hex for ",
     IF Truthy(Prop(channel, "name")) THEN Prop(channel, "name").s
     ELSE <<"c", "h", "a", "n", "n", "e", "l">>,
     "." >>

SumIsZeroMessage == <<"Sum of |w| is zero.">>

RECURSIVE CollectChannelsWeightFirst(_, _, _, _)
\* The forEach of computeOutputVector with the weight pushed before the
\* hex is decoded.
CollectChannelsWeightFirst(channels, i, acc, nanBytes) ==
  IF i > Len(channels) THEN acc
  ELSE
    LET decoded == DecodeChannel(channels[i], nanBytes)
        weight == DivBy100(ToNumber(Prop(channels[i], "weight")))
    IN  CollectChannelsWeightFirst(channels, i + 1,
          IF decoded.ok
          THEN [acc EXCEPT !.vectors = Append(@, decoded.v),
                           !.weights = Append(@, weight)]
          ELSE [acc EXCEPT !.weights = Append(@, weight),
                           !.errors = Append(@, InvalidHexMessage(channels[i]))],
          nanBytes)

RECURSIVE CollectChannels(_, _, _, _)
\* The forEach of computeOutputVector from channel i on: a hex that
\* decodes adds a vector and a weight, one that throws adds an error.
CollectChannels(channels, i, acc, nanBytes) ==
  IF i > Len(channels) THEN acc
  ELSE
    LET decoded == DecodeChannel(channels[i], nanBytes)
        weight == DivBy100(ToNumber(Prop(channels[i], "weight")))
    IN  CollectChannels(channels, i + 1,
          IF decoded.ok
          THEN [acc EXCEPT !.vectors = Append(@, decoded.v),
                           !.weights = Append(@, weight)]
          ELSE [acc EXCEPT !.errors = Append(@, InvalidHexMessage(channels[i]))],
          nanBytes)

\* computeOutputVector(tab): the lists handed to mixVectors, what it
\* returned or threw, the vector returned and the state of the error
\* element (showError(errors.join(" ")) or clearError()).
ComputeOutputVector(tab, nanBytes) ==
  LET lists == CollectChannels(ChannelsOf(tab), 1,
                 [vectors |-> <<>>, weights |-> <<>>, errors |-> <<>>], nanBytes)
      mix == MixVectors(lists.vectors, lists.weights, nanBytes)
  IN  IF ~mix.ok
      THEN [vectors |-> lists.vectors, weights |-> lists.weights, mix |-> mix,
            thrown |-> TRUE]
      ELSE
        LET zero == NumIsZero(mix.v.sumAbs)
            errors == IF zero THEN Append(lists.errors, SumIsZeroMessage)
                      ELSE lists.errors
        IN  [vectors |-> lists.vectors, weights |-> lists.weights, mix |-> mix,
             thrown |-> FALSE,
             vector |-> IF zero THEN ZeroVec(VecLen)
                        ELSE ApplyBus(mix.v.vector, Prop(tab, "busPercent").n, nanBytes),
             error |-> IF Len(errors) > 0
                       THEN [hidden |-> FALSE, text |-> errors]
                       ELSE [hidden |-> TRUE, text |-> <<>>]]

(***************************************************************************)
(* computeOutputVector scenarios: tabs of up to MaxChannels channels.      *)
(***************************************************************************)
HexOfOnes == Vec32ToHex([j \in 1..VecLen |-> Fin(0, 1, 0)], F32Bytes(0, 255, 4194304)).v
HexOfMixed ==
  Vec32ToHex([j \in 1..VecLen |-> Fin(j % 2, j % 7, -1)], F32Bytes(0, 255, 4194304)).v

OutChannel(id, name, hex, weight) ==
  JObj(<< <<"id", JStr(id)>>, <<"name", JStr(name)>>, <<"hex", JStr(hex)>>,
          <<"weight", JNum(weight)>>, <<"source", Undefined>> >>)

\* Channels as sanitizeTab leaves them: hex that decodes, in either case
\* of the digits, with weights 50, 0, -100 and NaN; hex that is too
\* short, and hex that holds a character that is no hex digit.
OutChannels ==
  { OutChannel(<<"1">>, <<"A">>, HexOfOnes, Fin(0, 50, 0)),
    OutChannel(<<"2">>, <<"B">>, HexOfOnes, Fin(0, 0, 0)),
    OutChannel(<<"3">>, <<>>, ToLowerCase(HexOfMixed), Fin(1, 100, 0)),
    OutChannel(<<"4">>, <<"D">>, HexOfOnes, NaN),
    OutChannel(<<"5">>, <<>>, SubSeq(HexOfOnes, 1, VecHexLen - 1), Fin(0, 50, 0)),
    OutChannel(<<"6">>, <<"F">>, <<"g">> \o SubSeq(HexOfOnes, 2, VecHexLen),
               Fin(0, 100, 0)) }

OutBusPercents == {Fin(0, 100, 0), Fin(0, 50, 0)}

OutTabs ==
  { JObj(<< <<"id", IdA>>, <<"name", JStr(<<>>)>>, <<"outputName", JStr(<<>>)>>,
            <<"busPercent", JNum(bus)>>, <<"channels", JArr(channels)>> >>) :
      bus \in OutBusPercents,
      channels \in UNION {[1..n -> OutChannels] : n \in 0..MaxChannels} }

InitOut ==
  /\ pc = "out"
  /\ outTab \in OutTabs
  /\ outRes = None
  /\ IdleCore /\ IdleNorm /\ IdleSave /\ IdleSess /\ IdleFix

\* renderOutput: computeOutputVector(tab) for the active tab.
ComputeOutput ==
  /\ pc = "out"
  /\ \E nanBytes \in NaNEncodings :
       outRes' = ComputeOutputVector(outTab, nanBytes)
  /\ pc' = "out_done"
  /\ UNCHANGED <<outTab, coreVars, normVars, saveVars, sessVars, fixVars>>

NextOut == ComputeOutput

SpecOut == InitOut /\ [][NextOut]_vars

\* The channels of the tab whose hex is 256 hex digits, and the others.
Decodable(channel) ==
  IsString(Prop(channel, "hex")) /\ HexRe(VecHexLen, Prop(channel, "hex").s)

ValidChannels == SelectSeq(ChannelsOf(outTab), Decodable)
InvalidChannels == SelectSeq(ChannelsOf(outTab), LAMBDA channel : ~Decodable(channel))

\* C29: computeOutputVector hands mixVectors equally many vectors and
\* weights, those of the channels whose hex decodes, in their order, so
\* that mixVectors never throws; each other channel is reported by an
\* "Invalid hex" error; and when sumAbs is zero, as it is with no
\* channels, with every weight zero and with every channel invalid, the
\* vector returned is all zero and the error element shows the errors,
\* "Sum of |w| is zero." being the last.
C29_EqualListsAndZeroSumReported ==
  pc = "out_done" =>
    /\ Len(outRes.vectors) = Len(outRes.weights)
    /\ Len(outRes.vectors) = Len(ValidChannels)
    /\ \A i \in 1..Len(ValidChannels) :
         /\ \E nanBytes \in NaNEncodings :
              outRes.vectors[i] = HexToVec32(Prop(ValidChannels[i], "hex").s, nanBytes).v
         /\ outRes.weights[i] = DivBy100(Prop(ValidChannels[i], "weight").n)
    /\ ~outRes.thrown /\ outRes.mix.ok
    /\ Len(outRes.error.text) >= Len(InvalidChannels)
    /\ \A i \in 1..Len(InvalidChannels) :
         outRes.error.text[i] = InvalidHexMessage(InvalidChannels[i])
    /\ Len(InvalidChannels) > 0 => ~outRes.error.hidden
    /\ NumIsZero(outRes.mix.v.sumAbs) =>
         /\ outRes.vector = ZeroVec(VecLen)
         /\ ~outRes.error.hidden
         /\ outRes.error.text[Len(outRes.error.text)] = SumIsZeroMessage
    /\ ~NumIsZero(outRes.mix.v.sumAbs) =>
         /\ Len(outRes.error.text) = Len(InvalidChannels)
         /\ outRes.error.hidden <=> Len(InvalidChannels) = 0
    /\ ( \/ Len(ValidChannels) = 0
         \/ \A i \in 1..Len(ValidChannels) :
              IsZero(Prop(ValidChannels[i], "weight").n) )
         => NumIsZero(outRes.mix.v.sumAbs)

\* A tab with a channel whose hex does not decode and a channel of
\* weight zero has been mixed: the sum is zero and two errors are shown.
C29_Witness ==
  /\ pc = "out_done"
  /\ Len(InvalidChannels) = 1 /\ Len(ValidChannels) = 1
  /\ NumIsZero(outRes.mix.v.sumAbs)
  /\ outRes.vector = ZeroVec(VecLen)
  /\ Len(outRes.error.text) = 2

(***************************************************************************)
(* Phoneset autofix (extension.ts): trackNofsLanguage,                     *)
(* schedulePhonesetAutofix, clearNofsTracking and applyPhonesetAutofix for *)
(* one document key.  The text of the document is what jsonc-parser's      *)
(* parse makes of it: [errors, data].                                      *)
(***************************************************************************)
\* readLanguageAndPhoneset(text): undefined, or { language, phoneset }
\* in lower case, each undefined unless the property is a string.
ReadLanguageAndPhoneset(text) ==
  IF text.errors \/ ~Truthy(text.data) \/ ~TypeofObject(text.data) \/ IsArray(text.data)
  THEN Undefined
  ELSE LET LowerOrUndefined(v) == IF IsString(v) THEN JStr(ToLowerCase(v.s)) ELSE Undefined
       IN  [t |-> "info",
            language |-> LowerOrUndefined(Prop(text.data, "language")),
            phoneset |-> LowerOrUndefined(Prop(text.data, "phoneset"))]

\* !info?.language
NoLanguage(info) == info.t = "undefined" \/ ~Truthy(info.language)

\* isNofsDocument(document) && document.uri.scheme === "file"
IsNofsFile(document) == document.nofs /\ document.scheme = "file"

\* trackNofsLanguage(document, cache): the cache entry afterwards.
TrackNofsLanguage(document, cache) ==
  LET info == ReadLanguageAndPhoneset(document.text)
  IN  IF ~document.nofs \/ NoLanguage(info) THEN cache ELSE info.language

\* The handle setTimeout returns: one no pending timer has.
NewTimer(pending) ==
  CHOOSE timer \in 1..(Cardinality(pending) + 1) :
    /\ timer \notin pending
    /\ \A other \in 1..(timer - 1) : other \in pending

\* schedulePhonesetAutofix(document, ...): the timers afterwards.  The
\* timer of the entry is cleared and a new one is set and entered.
SchedulePhonesetAutofix(document, timers) ==
  IF ~IsNofsFile(document) THEN timers
  ELSE LET timer == NewTimer(timers.pending)
       IN  [entry |-> timer,
            pending |-> (timers.pending \ {timers.entry}) \cup {timer}]

\* applyPhonesetAutofix(document, cache, inProgress) up to its await:
\* the cache entry afterwards, whether an edit is started and the
\* phoneset it writes, and what the call read (read is FALSE when it
\* returned before comparing languages).
ApplyPhonesetAutofix(document, cache, mark) ==
  LET info == ReadLanguageAndPhoneset(document.text)
      quit == [cache |-> cache, start |-> FALSE, read |-> FALSE]
  IN  IF ~IsNofsFile(document) THEN quit
      ELSE IF mark THEN quit
      ELSE IF NoLanguage(info) THEN quit
      ELSE
        LET expected == PHONESET_BY_LANGUAGE(info.language.s)
            known == info.language.s \in ALLOWED_LANGUAGES
            decided == [cache |-> info.language, read |-> TRUE,
                        previous |-> cache, language |-> info.language,
                        phoneset |-> info.phoneset, expected |-> expected]
        IN  IF cache = info.language
            THEN [quit EXCEPT !.read = TRUE] @@ decided
            ELSE IF ~known \/ expected = <<>> \/ info.phoneset = JStr(expected)
            THEN [start |-> FALSE] @@ decided
            ELSE [start |-> TRUE] @@ decided

\* The text after modify(text, ["phoneset"], expected) has been applied.
WithPhoneset(text, expected) ==
  [text EXCEPT !.data = CreateDataProperty(@, "phoneset", JStr(expected))]

(***************************************************************************)
(* Phoneset autofix scenarios: the user changes, closes, reopens and saves *)
(* the document, timers fire, and edits are applied and return.            *)
(***************************************************************************)
MaxChanges == 2
MaxCloses == 1
MaxEdits == 2

FixText(members) == [errors |-> FALSE, data |-> JObj(members)]

\* Texts with parse errors, of an array, of a language and its phoneset
\* in mixed case, of a language and another phoneset or none, of an
\* unknown language, and of no language.
FixTexts ==
  { [errors |-> TRUE, data |-> Undefined],
    [errors |-> FALSE, data |-> JArr(<<>>)],
    FixText(<< <<"language", JStr(ToUpperCase(japanese))>>, <<"phoneset", JStr(romaji)>> >>),
    FixText(<< <<"language", JStr(japanese)>>,
               <<"phoneset", JStr(ToUpperCase(arpabet))>> >>),
    FixText(<< <<"language", JStr(english)>> >>),
    FixText(<< <<"language", JStr(Klingon)>>, <<"phoneset", JStr(romaji)>> >>),
    FixText(<< <<"phoneset", JStr(romaji)>> >>) }

\* A .nofs.json file, a .nofs.json document that is no file, and a file
\* of another name.
FixDocuments ==
  { [nofs |-> n, scheme |-> sch, open |-> TRUE, text |-> text, changes |-> 0,
     closes |-> 0] :
      n \in BOOLEAN, sch \in {"file", "untitled"}, text \in FixTexts }
  \ { d \in [nofs : {FALSE}, scheme : {"untitled"}, open : {TRUE}, text : FixTexts,
             changes : {0}, closes : {0}] : TRUE }

\* activate(): the maps are empty and every open document is tracked.
InitFix ==
  /\ pc = "fix"
  /\ fixDoc \in FixDocuments
  /\ fixCache = TrackNofsLanguage(fixDoc, Undefined)
  /\ fixTimers = [entry |-> 0, pending |-> {}]
  /\ fixMark = FALSE
  /\ fixEdits = <<>>
  /\ fixLog = None
  /\ IdleCore /\ IdleNorm /\ IdleSave /\ IdleSess /\ IdleOut

\* onDidChangeTextDocument after the user changed the text.
ChangeText ==
  /\ pc = "fix"
  /\ fixDoc.open
  /\ fixDoc.changes < MaxChanges
  /\ \E text \in FixTexts \ {fixDoc.text} :
       fixDoc' = [fixDoc EXCEPT !.text = text, !.changes = @ + 1]
  /\ fixTimers' = SchedulePhonesetAutofix(fixDoc', fixTimers)
  /\ UNCHANGED <<pc, fixCache, fixMark, fixEdits, fixLog, coreVars, normVars, saveVars,
                 sessVars, outVars>>

\* onDidSaveTextDocument: trackNofsLanguage.
SaveText ==
  /\ pc = "fix"
  /\ fixDoc.open
  /\ fixCache' = TrackNofsLanguage(fixDoc, fixCache)
  /\ UNCHANGED <<pc, fixDoc, fixTimers, fixMark, fixEdits, fixLog, coreVars, normVars,
                 saveVars, sessVars, outVars>>

\* onDidCloseTextDocument: clearNofsTracking.
CloseDocument ==
  /\ pc = "fix"
  /\ fixDoc.open
  /\ fixDoc.closes < MaxCloses
  /\ fixDoc' = [fixDoc EXCEPT !.open = FALSE, !.closes = @ + 1]
  /\ IF fixDoc.nofs
     THEN /\ fixCache' = Undefined
          /\ fixTimers' = [fixTimers EXCEPT !.entry = 0,
                                            !.pending = @ \ {fixTimers.entry}]
          /\ fixMark' = FALSE
     ELSE UNCHANGED <<fixCache, fixTimers, fixMark>>
  /\ UNCHANGED <<pc, fixEdits, fixLog, coreVars, normVars, saveVars, sessVars, outVars>>

\* onDidOpenTextDocument of the document opened again: trackNofsLanguage.
OpenDocument ==
  /\ pc = "fix"
  /\ ~fixDoc.open
  /\ fixDoc' = [fixDoc EXCEPT !.open = TRUE]
  /\ fixCache' = TrackNofsLanguage(fixDoc', fixCache)
  /\ UNCHANGED <<pc, fixTimers, fixMark, fixEdits, fixLog, coreVars, normVars, saveVars,
                 sessVars, outVars>>

\* A timer fires: its callback deletes the entry and calls
\* applyPhonesetAutofix, which runs up to its await.
TimerFires ==
  /\ pc = "fix"
  /\ \E timer \in fixTimers.pending :
       LET applied == ApplyPhonesetAutofix(fixDoc, fixCache, fixMark)
       IN  /\ applied.start => Len(fixEdits) < MaxEdits
           /\ fixTimers' = [fixTimers EXCEPT !.entry = 0, !.pending = @ \ {timer}]
           /\ fixCache' = applied.cache
           /\ fixMark' = (fixMark \/ applied.start)
           /\ fixEdits' = IF applied.start
                          THEN Append(fixEdits, [text |-> fixDoc.text,
                                                 expected |-> applied.expected,
                                                 applied |-> FALSE])
                          ELSE fixEdits
           /\ fixLog' = [applied EXCEPT !.cache = fixCache] @@ [marked |-> fixMark]
  /\ UNCHANGED <<pc, fixDoc, coreVars, normVars, saveVars, sessVars, outVars>>

\* vscode.workspace.applyEdit takes effect on the open document, which
\* raises onDidChangeTextDocument.  The edits were computed for the text
\* the call read; on another text their outcome is any text.
EditApplies ==
  /\ pc = "fix"
  /\ fixDoc.open
  /\ \E k \in 1..Len(fixEdits) :
       /\ ~fixEdits[k].applied
       /\ \E text \in IF fixDoc.text = fixEdits[k].text
                      THEN {WithPhoneset(fixDoc.text, fixEdits[k].expected)}
                      ELSE FixTexts :
            fixDoc' = [fixDoc EXCEPT !.text = text]
       /\ fixEdits' = [fixEdits EXCEPT ![k].applied = TRUE]
  /\ fixTimers' = SchedulePhonesetAutofix(fixDoc', fixTimers)
  /\ UNCHANGED <<pc, fixCache, fixMark, fixLog, coreVars, normVars, saveVars, sessVars,
                 outVars>>

\* The await of applyJsonEdits ends, the edit applied or not (applyEdit
\* returned false or threw): the finally block deletes the mark.
EditReturns ==
  /\ pc = "fix"
  /\ \E k \in 1..Len(fixEdits) :
       fixEdits' = SubSeq(fixEdits, 1, k - 1) \o SubSeq(fixEdits, k + 1, Len(fixEdits))
  /\ fixMark' = FALSE
  /\ UNCHANGED <<pc, fixDoc, fixCache, fixTimers, fixLog, coreVars, normVars, saveVars,
                 sessVars, outVars>>

NextFix ==
  \/ ChangeText \/ SaveText \/ CloseDocument \/ OpenDocument
  \/ TimerFires \/ EditApplies \/ EditReturns

SpecFix == InitFix /\ [][NextFix]_vars

\* At most one timer is pending, and it is the one of the entry.
OnePendingTimer ==
  /\ Cardinality(fixTimers.pending) <= 1
  /\ fixTimers.pending = {fixTimers.entry} \ {0}

\* The mark is gone once no edit is awaited.
MarkRemovedAfterEdits == fixEdits = <<>> => ~fixMark

\* A call that started an edit read a language other than the recorded
\* one, a known one, and a phoneset other than the mandated one, of a
\* .nofs.json file without mark.
EditOnlyWhenDue ==
  fixLog # None /\ fixLog.start =>
    /\ IsNofsFile(fixDoc) /\ ~fixLog.marked
    /\ fixLog.previous # fixLog.language
    /\ fixLog.language.s \in ALLOWED_LANGUAGES
    /\ fixLog.phoneset # JStr(PHONESET_BY_LANGUAGE(fixLog.language.s))
    /\ fixLog.expected = PHONESET_BY_LANGUAGE(fixLog.language.s)

\* C30: for a document, in every state reached by text changes, timers
\* firing, closing and reopening: at most one autofix timer is pending,
\* at most one autofix edit is awaited, the in-progress mark is gone once
\* no edit is awaited, and an edit was started only for a language that
\* differs from the recorded one and is known and a phoneset that
\* differs from the mandated one.
C30_OneTimerOneEdit ==
  pc = "fix" =>
    /\ OnePendingTimer
    /\ Len(fixEdits) <= 1
    /\ MarkRemovedAfterEdits
    /\ EditOnlyWhenDue

====
